---- MODULE Spec2Model ----
(***************************************************************************)
(* A model of the AEOBooster crawl pipeline: one background crawl job      *)
(* (api/crawl.py run_crawl_job) driving one CrawlerService instance        *)
(* (services/crawler_service.py): base URL validation, the Playwright      *)
(* engine, the BeautifulSoup fallback, and the persistence of the result.  *)
(*                                                                         *)
(* A step of the model is the code between two suspension points of the    *)
(* coroutine (await), or between two places where an exception can leave   *)
(* the straight-line path.                                                 *)
(*                                                                         *)
(* Spec is that job, SpecCancel the same job with its task cancelled at    *)
(* an await.  Further specifications exercise parts of the code on their   *)
(* own: SpecApi the start_crawl handler interleaved with the background    *)
(* tasks of several jobs, SpecRobots direct calls of _can_fetch_url on     *)
(* one instance, SpecUrl normalize_url and _filter_and_normalize_urls on   *)
(* URL texts, SpecHeadings _extract_headings of the content extractor on   *)
(* small documents, SpecClassify classify_page of the page classifier,     *)
(* with its scores computed as Python computes them, in binary64.          *)
(***************************************************************************)
EXTENDS Integers, Sequences, FiniteSets, TLC

\* ------------------------------------------------------------------ bounds

\* Number of distinct page paths of the crawled site (path 1 is the root).
NumPaths == 3
\* Largest max_pages a crawl request is made with in the model (the API
\* accepts 1..500).
MaxPagesBound == 2
\* Largest number of links (a href) on one page in the model.
MaxLinks == 2

\* ------------------------------------------------------------------ URLs

\* urlparse() splits a URL into components; the model keeps a URL as the
\* record of the components the crawler reads.  path is the number of a
\* page path, ext the file extension of its last segment.
Url(s, n, p, e, f) ==
    [scheme |-> s, netloc |-> n, path |-> p, ext |-> e, fragment |-> f]

\* Python's None, for an Optional[str] URL.
None == Url("None", "", 0, "", "")

\* str.lower() on the host names of the model.
Lower(h) == IF h = "X.com" THEN "x.com" ELSE IF h = "Y.com" THEN "y.com" ELSE h

\* CrawlerService.normalize_url
normalize_url(url) ==
    IF url.netloc = "" \/ url.scheme \notin {"http", "https"}
    THEN None
    ELSE [url EXCEPT !.netloc = Lower(@), !.fragment = ""]

\* The tuple of extensions of line 335-336 (after path.lower()).
ExcludedExt == {".pdf", ".jpg", ".jpeg", ".png", ".gif", ".css", ".js",
                ".xml", ".zip", ".doc", ".docx"}

LowerExt(e) == IF e = ".PDF" THEN ".pdf" ELSE e

\* One iteration of the loop of _filter_and_normalize_urls: the URL it
\* appends for `url`, as a set (empty when the URL is skipped).
FilterOne(url, base_url) ==
    IF url.netloc # base_url.netloc THEN {}
    ELSE IF url.scheme \notin {"http", "https"} THEN {}
    ELSE IF LowerExt(url.ext) \in ExcludedExt THEN {}
    ELSE IF normalize_url(url) # None THEN {normalize_url(url)}
    ELSE {}

\* CrawlerService._filter_and_normalize_urls, up to the order of the
\* returned list: list(set(filtered_urls)).
FilterAndNormalizeUrls(urls, base_url) ==
    UNION {FilterOne(u, base_url) : u \in urls}

\* The pages of the site, as normalized URLs.
SitePage(p) == Url("https", "x.com", p, "", "")

\* The hrefs a page of the site may carry: every page of the site, and
\* links the filter has to drop or merge.
RawLinks ==
    {SitePage(p) : p \in 1..NumPaths}
    \cup {Url("https", "x.com", 2, "", "top"),
          Url("https", "X.com", 2, "", ""),
          Url("https", "y.com", 1, "", ""),
          Url("mailto", "x.com", 1, "", ""),
          Url("https", "x.com", 1, ".PDF", "")}

\* The base URLs a crawl is started with: the root as stored, the root
\* with an upper-case host and a fragment, and two URLs normalize_url
\* rejects.
BaseInputs ==
    {SitePage(1),
     Url("https", "X.com", 1, "", "top"),
     Url("ftp", "x.com", 1, "", ""),
     Url("https", "", 1, "", "")}

\* All orders in which list(set(...)) may return the elements of S.
Perms(S) ==
    {s \in [1..Cardinality(S) -> S] :
        \A i, j \in 1..Cardinality(S) : i # j => s[i] # s[j]}

Range(s) == {s[i] : i \in 1..Len(s)}

\* ---------------------------------------------------------------- robots

\* f"{parsed.scheme}://{parsed.netloc}/robots.txt"
RobotUrl(url) == <<url.scheme, url.netloc>>

\* A parsed robots.txt: the paths it disallows for the crawler's agent.
\* NoPolicy is the None the cache holds when robots.txt could not be read.
NoPolicy == [read |-> FALSE, disallow |-> {}]

\* The policies of the model disallow nothing or one path.
Policies ==
    {[read |-> TRUE, disallow |-> d] :
        d \in {{}} \cup {{p} : p \in 1..NumPaths}}

\* ----------------------------------------------------------------- state

VARIABLES
    base_input,      \* the base_url argument of run_crawl_job / crawl_website
    max_pages,       \* CrawlerService.max_pages
    respect_robots,  \* CrawlerService.respect_robots
    pc,              \* where the background task stands
    base_url,        \* normalized_url of crawl_website (None before it is set)
    crawled_urls,    \* CrawlerService.crawled_urls
    failed_urls,     \* CrawlerService.failed_urls
    robots_cache,    \* CrawlerService.robots_cache: robots.txt URL -> policy
    crawl_results,   \* the crawl_results dict of crawl_website
    urls_to_crawl,   \* the queue of the running engine
    current_url,     \* the URL the running engine popped last
    engine,          \* the engine whose loop runs: none, playwright, beautifulsoup
    primary_failure, \* what made crawl_website leave the Playwright block
    exc,             \* the exception that left crawl_website ("" when none)
    fetches,         \* history: every page fetch issued, with engine and outcome
    returned,        \* the dict crawl_website returned to run_crawl_job
    job,             \* the CrawlJob row
    db_pages,        \* the CrawledPage rows committed for the job
    robots_reads,    \* history: the robots.txt URLs read (rp.read() calls)
    slept,           \* history: asyncio.sleep ran since the last page fetch
    notifications    \* history: the dicts progress_callback was called with

\* The state of the other specifications of this module (see below).
VARIABLES
    jobs,              \* the crawl_jobs table: job id -> row
    tasks,             \* where the background task of each job stands
    active_crawl_jobs, \* the global progress dict of api/crawl.py
    last_response,     \* the response to the latest start_crawl request
    url_in,            \* a URL string handed to normalize_url / the filter
    url_out,           \* what was computed from it
    robots_call,       \* the latest direct call of _can_fetch_url
    cls_in,            \* the arguments of the latest classify_page call
    cls_out,           \* its scores dict and the tuple it returned
    doc_in,            \* the document handed to _extract_headings
    doc_out            \* the list it returned

api_vars == <<jobs, tasks, active_crawl_jobs, last_response>>

url_vars == <<url_in, url_out>>

robots_vars == <<robots_call>>

classify_vars == <<cls_in, cls_out>>

headings_vars == <<doc_in, doc_out>>

other_specs ==
    <<api_vars, url_vars, robots_vars, classify_vars, headings_vars>>

vars ==
    <<base_input, max_pages, respect_robots, pc, base_url, crawled_urls,
      failed_urls, robots_cache, robots_reads, crawl_results, urls_to_crawl,
      current_url,
      engine, primary_failure, exc, fetches, returned, job, db_pages,
      slept, notifications, other_specs>>

config == <<base_input, max_pages, respect_robots>>

\* The crawl_results dict of lines 77-88 (timestamps and ids left out).
NewCrawlResults ==
    [pages_crawled |-> 0, pages_failed |-> 0, total_pages_found |-> 0,
     crawled_pages |-> <<>>, failed_pages |-> <<>>, status |-> "running"]

\* No dict: crawl_website has not built it, or has not returned one.
NoResults == [NewCrawlResults EXCEPT !.status = "none"]

\* A CrawlJob row as start_crawl commits it.
NewJob ==
    [status |-> "pending", pages_crawled |-> 0, pages_failed |-> 0,
     total_pages_found |-> 0, error_message |-> "", completed |-> FALSE]

\* The other specifications' variables, at rest.
ApiAtRest ==
    /\ jobs = <<>>
    /\ tasks = <<>>
    /\ active_crawl_jobs = <<>>
    /\ last_response = [seq |-> 0, code |-> 0, project_id |-> 0, job_id |-> 0]

\* No call of the URL functions made yet.
NoUrlCall == [fn |-> "", urls |-> <<>>, base_url |-> <<>>]

UrlAtRest ==
    /\ url_in = NoUrlCall
    /\ url_out = <<>>

\* No call of _can_fetch_url made yet.
NoRobotsCall == [n |-> 0, url |-> None, allowed |-> TRUE, hit |-> FALSE]

\* classify_page has not been called.
NoClassifyCall ==
    [url |-> <<>>, title |-> {}, content |-> {},
     structured_data |-> [is_none |-> TRUE, json_ld |-> <<>>,
                          microdata |-> <<>>]]

ClassifyAtRest ==
    /\ cls_in = NoClassifyCall
    /\ cls_out = <<>>

\* _extract_headings has not been called.
NoHeadingsCall == [returned |-> FALSE, headings |-> <<>>]

HeadingsAtRest ==
    /\ doc_in = <<>>
    /\ doc_out = NoHeadingsCall

Init ==
    /\ ApiAtRest
    /\ UrlAtRest
    /\ robots_call = NoRobotsCall
    /\ ClassifyAtRest
    /\ HeadingsAtRest
    /\ robots_reads = <<>>
    /\ slept = FALSE
    /\ notifications = <<>>
    /\ base_input \in BaseInputs
    /\ max_pages \in 1..MaxPagesBound
    /\ respect_robots \in BOOLEAN
    /\ pc = "job_start"
    /\ base_url = None
    /\ crawled_urls = {}
    /\ failed_urls = {}
    /\ robots_cache = <<>>
    /\ crawl_results = NoResults
    /\ urls_to_crawl = <<>>
    /\ current_url = None
    /\ engine = "none"
    /\ primary_failure = "none"
    /\ exc = ""
    /\ fetches = <<>>
    /\ returned = NoResults
    /\ job = NewJob
    /\ db_pages = <<>>

\* ------------------------------------------------------- shared operations

CanFetchUrl_NoCacheOnFailure(url, ok) ==
    LET key == RobotUrl(url) IN
    IF key \notin DOMAIN robots_cache
    THEN /\ robots_reads' = Append(robots_reads, key)
         /\ \/ /\ robots_cache' = robots_cache
               /\ ok = TRUE
            \/ \E rp \in Policies :
                  /\ robots_cache' = (key :> rp) @@ robots_cache
                  /\ ok = (url.path \notin rp.disallow)
    ELSE /\ UNCHANGED <<robots_cache, robots_reads>>
         /\ ok = (robots_cache[key] = NoPolicy
                  \/ url.path \notin robots_cache[key].disallow)

\* CrawlerService._can_fetch_url: ok is the value it returns; the cache is
\* filled on the first call for an origin, with the parsed policy or,
\* when robots.txt cannot be read, with None.
CanFetchUrl(url, ok) ==
    LET key == RobotUrl(url) IN
    IF key \notin DOMAIN robots_cache
    THEN /\ robots_reads' = Append(robots_reads, key)
         /\ \/ /\ robots_cache' = (key :> NoPolicy) @@ robots_cache
               /\ ok = TRUE
            \/ \E rp \in Policies :
                  /\ robots_cache' = (key :> rp) @@ robots_cache
                  /\ ok = (url.path \notin rp.disallow)
    ELSE /\ UNCHANGED <<robots_cache, robots_reads>>
         /\ ok = (robots_cache[key] = NoPolicy
                  \/ url.path \notin robots_cache[key].disallow)

LoopCond_OffByOne(queue, results) ==
    queue # <<>> /\ results.pages_crawled <= max_pages

\* The while condition of both engines (lines 130 and 229).
LoopCond(queue, results) ==
    queue # <<>> /\ results.pages_crawled < max_pages

\* The for loop of lines 172-176 / 267-271: append each new URL that is
\* not crawled, not failed and not queued.
RECURSIVE EnqueueNew(_, _)
EnqueueNew(queue, new_urls) ==
    IF new_urls = <<>> THEN queue
    ELSE LET url == Head(new_urls) IN
         IF url \notin crawled_urls /\ url \notin failed_urls
            /\ url \notin Range(queue)
         THEN EnqueueNew(Append(queue, url), Tail(new_urls))
         ELSE EnqueueNew(queue, Tail(new_urls))

\* The page_data dict of lines 156-164 / 250-258.
PageData(url) == [url |-> url, status |-> "crawled"]

\* dict.get(key, default)
DictGet(d, key, default) == IF key \in DOMAIN d THEN d[key] ELSE default

\* Lines 166-168 / 260-262.
RecordCrawled(url) ==
    /\ crawl_results' = [crawl_results EXCEPT
                            !.crawled_pages = Append(@, PageData(url)),
                            !.pages_crawled = @ + 1]
    /\ crawled_urls' = crawled_urls \cup {url}
    /\ UNCHANGED failed_urls

RecordFailed_NoCount(url, error) ==
    /\ failed_urls' = failed_urls \cup {url}
    /\ crawl_results' = [crawl_results EXCEPT
                            !.failed_pages = Append(@, [url |-> url, error |-> error])]
    /\ UNCHANGED crawled_urls

\* Lines 193-199, 203-209 and 288-294.
RecordFailed(url, error) ==
    /\ failed_urls' = failed_urls \cup {url}
    /\ crawl_results' = [crawl_results EXCEPT
                            !.failed_pages = Append(@, [url |-> url, error |-> error]),
                            !.pages_failed = @ + 1]
    /\ UNCHANGED crawled_urls

\* str(e) of the exceptions of the model.
ErrorText(kind) ==
    CASE kind = "TimeoutError" -> "Timeout 30000ms exceeded"
      [] kind = "Error" -> "net::ERR_CONNECTION_REFUSED"
      [] kind = "RequestException" -> "404 Client Error"
      [] kind = "Exception" -> "Network error"
      [] kind = "CallbackError" -> "database is locked"
      [] OTHER -> kind

\* -------------------------------------------------- run_crawl_job: start

RunJobStart_StaysPending ==
    /\ pc = "job_start"
    /\ job' = job
    /\ pc' = "cw_validate"
    /\ UNCHANGED <<config, other_specs, slept, notifications,
                   base_url, crawled_urls, failed_urls, robots_cache, robots_reads,
                   crawl_results, urls_to_crawl, current_url, engine,
                   primary_failure, exc, fetches, returned, db_pages>>

\* run_crawl_job, lines 298-329: the job row goes to running and the
\* crawler is built.
RunJobStart ==
    /\ pc = "job_start"
    /\ job' = [job EXCEPT !.status = "running"]
    /\ pc' = "cw_validate"
    /\ UNCHANGED <<config, other_specs, slept, notifications,
                   base_url, crawled_urls, failed_urls, robots_cache, robots_reads,
                   crawl_results, urls_to_crawl, current_url, engine,
                   primary_failure, exc, fetches, returned, db_pages>>

\* ------------------------------------------------------------ crawl_website

CwValidate_SkipsRobots ==
    /\ pc = "cw_validate"
    /\ LET normalized_url == normalize_url(base_input) IN
       IF normalized_url = None
       THEN /\ exc' = "Invalid URL"
            /\ pc' = "job_except"
            /\ UNCHANGED <<base_url, crawl_results, robots_cache, robots_reads>>
       ELSE /\ base_url' = normalized_url
            /\ crawl_results' = NewCrawlResults
            /\ pc' = "cw_launch"
            /\ UNCHANGED <<exc, robots_cache, robots_reads>>
    /\ UNCHANGED <<config, other_specs, slept, notifications,
                   crawled_urls, failed_urls, urls_to_crawl,
                   current_url, engine, primary_failure, fetches, returned,
                   job, db_pages>>

\* crawl_website, lines 68-88: normalize the base URL, check robots.txt for
\* it, build crawl_results.  A ValueError leaves crawl_website and is
\* caught by run_crawl_job.
CwValidate ==
    /\ pc = "cw_validate"
    /\ LET normalized_url == normalize_url(base_input) IN
       IF normalized_url = None
       THEN /\ exc' = "Invalid URL"
            /\ pc' = "job_except"
            /\ UNCHANGED <<base_url, crawl_results, robots_cache, robots_reads>>
       ELSE \E ok \in BOOLEAN :
              /\ IF respect_robots
                 THEN CanFetchUrl(normalized_url, ok)
                 ELSE ok = TRUE /\ UNCHANGED <<robots_cache, robots_reads>>
              /\ IF ok
                 THEN /\ base_url' = normalized_url
                      /\ crawl_results' = NewCrawlResults
                      /\ pc' = "cw_launch"
                      /\ UNCHANGED exc
                 ELSE /\ exc' = "Robots.txt disallows crawling"
                      /\ pc' = "job_except"
                      /\ UNCHANGED <<base_url, crawl_results>>
    /\ UNCHANGED <<config, other_specs, slept, notifications,
                   crawled_urls, failed_urls, urls_to_crawl,
                   current_url, engine, primary_failure, fetches, returned,
                   job, db_pages>>

\* Lines 92-93: async_playwright() and chromium.launch().  When either
\* raises, the except clause of line 102 starts the fallback.
CwLaunch ==
    /\ pc = "cw_launch"
    /\ \/ /\ pc' = "pw_new_page"
          /\ UNCHANGED primary_failure
       \/ /\ primary_failure' = "launch"
          /\ pc' = "bs_start"
    /\ UNCHANGED <<config, other_specs, slept, notifications,
                   base_url, crawled_urls, failed_urls, robots_cache, robots_reads,
                   crawl_results, urls_to_crawl, current_url, engine, exc,
                   fetches, returned, job, db_pages>>

\* Lines 110-116: the result is marked completed and returned.
CwFinish ==
    /\ pc = "cw_finish"
    /\ crawl_results' = [crawl_results EXCEPT !.status = "completed"]
    /\ returned' = crawl_results'
    /\ pc' = "job_save"
    /\ UNCHANGED <<config, other_specs, slept, notifications,
                   base_url, crawled_urls, failed_urls, robots_cache, robots_reads,
                   urls_to_crawl, current_url, engine, primary_failure, exc,
                   fetches, job, db_pages>>

\* ---------------------------------------------------- _crawl_with_playwright

\* Lines 126-127: browser.new_page() and the queue seeded with base_url.
\* When new_page raises, browser.close() runs and line 102 catches.
PwNewPage ==
    /\ pc = "pw_new_page"
    /\ \/ /\ urls_to_crawl' = <<base_url>>
          /\ engine' = "playwright"
          /\ pc' = "pw_loop"
          /\ UNCHANGED primary_failure
       \/ /\ primary_failure' = "new_page"
          /\ pc' = "bs_start"
          /\ UNCHANGED <<urls_to_crawl, engine>>
    /\ UNCHANGED <<config, other_specs, slept, notifications,
                   base_url, crawled_urls, failed_urls, robots_cache, robots_reads,
                   crawl_results, current_url, exc, fetches, returned, job,
                   db_pages>>

LoopHead_NoDedup(fetch, again, out) ==
    IF LoopCond(urls_to_crawl, crawl_results)
    THEN /\ current_url' = Head(urls_to_crawl)
         /\ urls_to_crawl' = Tail(urls_to_crawl)
         /\ \E ok \in BOOLEAN :
               /\ IF respect_robots
                  THEN CanFetchUrl(current_url', ok)
                  ELSE ok = TRUE /\ UNCHANGED <<robots_cache, robots_reads>>
               /\ pc' = IF ok THEN fetch ELSE again
    ELSE /\ pc' = out
         /\ UNCHANGED <<current_url, urls_to_crawl, robots_cache, robots_reads>>

LoopHead_AlwaysRobots(fetch, again, out) ==
    IF LoopCond(urls_to_crawl, crawl_results)
    THEN /\ current_url' = Head(urls_to_crawl)
         /\ urls_to_crawl' = Tail(urls_to_crawl)
         /\ IF current_url' \in crawled_urls \/ current_url' \in failed_urls
            THEN pc' = again /\ UNCHANGED <<robots_cache, robots_reads>>
            ELSE \E ok \in BOOLEAN :
                   /\ CanFetchUrl(current_url', ok)
                   /\ pc' = IF ok THEN fetch ELSE again
    ELSE /\ pc' = out
         /\ UNCHANGED <<current_url, urls_to_crawl, robots_cache, robots_reads>>

LoopHead_FetchesDisallowed(fetch, again, out) ==
    IF LoopCond(urls_to_crawl, crawl_results)
    THEN /\ current_url' = Head(urls_to_crawl)
         /\ urls_to_crawl' = Tail(urls_to_crawl)
         /\ IF current_url' \in crawled_urls \/ current_url' \in failed_urls
            THEN pc' = again /\ UNCHANGED <<robots_cache, robots_reads>>
            ELSE \E ok \in BOOLEAN :
                   /\ IF respect_robots
                      THEN CanFetchUrl(current_url', ok)
                      ELSE ok = TRUE /\ UNCHANGED <<robots_cache, robots_reads>>
                   /\ pc' = fetch
    ELSE /\ pc' = out
         /\ UNCHANGED <<current_url, urls_to_crawl, robots_cache, robots_reads>>

LoopHead_PopsLast(fetch, again, out) ==
    IF LoopCond(urls_to_crawl, crawl_results)
    THEN /\ current_url' = urls_to_crawl[Len(urls_to_crawl)]
         /\ urls_to_crawl' = SubSeq(urls_to_crawl, 1, Len(urls_to_crawl) - 1)
         /\ IF current_url' \in crawled_urls \/ current_url' \in failed_urls
            THEN pc' = again /\ UNCHANGED <<robots_cache, robots_reads>>
            ELSE \E ok \in BOOLEAN :
                   /\ IF respect_robots
                      THEN CanFetchUrl(current_url', ok)
                      ELSE ok = TRUE /\ UNCHANGED <<robots_cache, robots_reads>>
                   /\ pc' = IF ok THEN fetch ELSE again
    ELSE /\ pc' = out
         /\ UNCHANGED <<current_url, urls_to_crawl, robots_cache, robots_reads>>

\* Lines 130-138 / 229-237: the loop test, the pop and the two skips.
\* `fetch` is where the engine goes to fetch the URL, `again` the head of
\* the loop, `out` where the loop ends.
LoopHead(fetch, again, out) ==
    IF LoopCond(urls_to_crawl, crawl_results)
    THEN /\ current_url' = Head(urls_to_crawl)
         /\ urls_to_crawl' = Tail(urls_to_crawl)
         /\ IF current_url' \in crawled_urls \/ current_url' \in failed_urls
            THEN pc' = again /\ UNCHANGED <<robots_cache, robots_reads>>
            ELSE \E ok \in BOOLEAN :
                   /\ IF respect_robots
                      THEN CanFetchUrl(current_url', ok)
                      ELSE ok = TRUE /\ UNCHANGED <<robots_cache, robots_reads>>
                   /\ pc' = IF ok THEN fetch ELSE again
    ELSE /\ pc' = out
         /\ UNCHANGED <<current_url, urls_to_crawl, robots_cache, robots_reads>>

PwLoop ==
    /\ pc = "pw_loop"
    /\ LoopHead("pw_fetch", "pw_loop", "pw_close")
    /\ UNCHANGED <<config, other_specs, slept, notifications,
                   base_url, crawled_urls, failed_urls, crawl_results,
                   engine, primary_failure, exc, fetches, returned, job,
                   db_pages>>

PwFetch_ErrorEscapes ==
    /\ pc = "pw_fetch"
    /\ slept' = FALSE
    /\ \/ /\ fetches' = Append(fetches, [url |-> current_url,
                                         engine |-> "playwright", outcome |-> "ok"])
          /\ RecordCrawled(current_url)
          /\ pc' = "pw_links"
       \/ /\ fetches' = Append(fetches, [url |-> current_url,
                                         engine |-> "playwright",
                                         outcome |-> "TimeoutError"])
          /\ RecordFailed(current_url, "timeout")
          /\ pc' = "pw_loop"
       \/ /\ fetches' = Append(fetches, [url |-> current_url,
                                         engine |-> "playwright", outcome |-> "Error"])
          /\ pc' = "bs_start"
          /\ UNCHANGED <<crawl_results, crawled_urls, failed_urls>>
    /\ UNCHANGED <<config, other_specs, notifications,
                   base_url, robots_cache, robots_reads, urls_to_crawl, current_url,
                   engine, primary_failure, exc, returned, job, db_pages>>

\* Lines 140-168 and 191-209: goto, wait_for_load_state, content, title,
\* extraction and classification; on success the page is recorded, on
\* TimeoutError or any other Exception the failure is.
PwFetch ==
    /\ pc = "pw_fetch"
    /\ slept' = FALSE
    /\ \/ /\ fetches' = Append(fetches, [url |-> current_url,
                                         engine |-> "playwright", outcome |-> "ok"])
          /\ RecordCrawled(current_url)
          /\ pc' = "pw_links"
       \/ /\ fetches' = Append(fetches, [url |-> current_url,
                                         engine |-> "playwright",
                                         outcome |-> "TimeoutError"])
          /\ RecordFailed(current_url, "timeout")
          /\ pc' = "pw_loop"
       \/ /\ fetches' = Append(fetches, [url |-> current_url,
                                         engine |-> "playwright", outcome |-> "Error"])
          /\ RecordFailed(current_url, ErrorText("Error"))
          /\ pc' = "pw_loop"
    /\ UNCHANGED <<config, other_specs, notifications,
                   base_url, robots_cache, robots_reads, urls_to_crawl, current_url,
                   engine, primary_failure, exc, returned, job, db_pages>>

\* Lines 170-178 / 264-273: the links of the page, filtered, normalized
\* and enqueued; total_pages_found.  An error inside
\* _extract_urls_from_page gives [], which is the choice links = {}.
ExtractAndEnqueue ==
    \E links \in {x \in SUBSET RawLinks : Cardinality(x) <= MaxLinks} :
      \E new_urls \in Perms(FilterAndNormalizeUrls(links, base_url)) :
        /\ urls_to_crawl' = EnqueueNew(urls_to_crawl, new_urls)
        /\ crawl_results' =
             [crawl_results EXCEPT
                !.total_pages_found = Len(urls_to_crawl') + crawl_results.pages_crawled]

PwLinks ==
    /\ pc = "pw_links"
    /\ ExtractAndEnqueue
    /\ pc' = "pw_progress"
    /\ UNCHANGED <<config, other_specs, slept, notifications,
                   base_url, crawled_urls, failed_urls, robots_cache, robots_reads,
                   current_url, engine, primary_failure, exc, fetches,
                   returned, job, db_pages>>

\* The dict of lines 182-186 / 277-281.
Notification ==
    [current_url |-> current_url,
     pages_crawled |-> crawl_results.pages_crawled,
     pages_found |-> crawl_results.total_pages_found]

\* run_crawl_job.progress_callback, lines 313-321: the job row takes the
\* counters of the notification and is committed.
ProgressCallback ==
    job' = [job EXCEPT !.pages_crawled = crawl_results.pages_crawled,
                       !.total_pages_found = crawl_results.total_pages_found]

\* Lines 180-186: the awaited callback.  An exception it raises (its
\* db.commit() failing) is caught by the except clause of line 201.
PwProgress ==
    /\ pc = "pw_progress"
    /\ notifications' = Append(notifications, Notification)
    /\ \/ /\ ProgressCallback
          /\ pc' = "pw_sleep"
          /\ UNCHANGED <<crawl_results, crawled_urls, failed_urls>>
       \/ /\ RecordFailed(current_url, ErrorText("CallbackError"))
          /\ pc' = "pw_loop"
          /\ UNCHANGED job
    /\ UNCHANGED <<config, other_specs, slept,
                   base_url, robots_cache, robots_reads, urls_to_crawl, current_url,
                   engine, primary_failure, exc, fetches, returned, db_pages>>

\* Line 189: asyncio.sleep(delay_seconds).
PwSleep ==
    /\ pc = "pw_sleep"
    /\ slept' = TRUE
    /\ pc' = "pw_loop"
    /\ UNCHANGED <<config, other_specs, notifications,
                   base_url, crawled_urls, failed_urls, robots_cache, robots_reads,
                   crawl_results, urls_to_crawl, current_url, engine,
                   primary_failure, exc, fetches, returned, job, db_pages>>

\* Lines 211-214 and 98-100: page.close(), crawl_results.update(results),
\* browser.close() and the exit of async_playwright().  When one of them
\* raises, the except clause of line 102 starts the fallback.
PwClose ==
    /\ pc = "pw_close"
    /\ \/ /\ pc' = "cw_finish"
          /\ UNCHANGED primary_failure
       \/ /\ primary_failure' = "close"
          /\ pc' = "bs_start"
    /\ UNCHANGED <<config, other_specs, slept, notifications,
                   base_url, crawled_urls, failed_urls, robots_cache, robots_reads,
                   crawl_results, urls_to_crawl, current_url, engine, exc,
                   fetches, returned, job, db_pages>>

\* ------------------------------------------------- _crawl_with_beautifulsoup

\* Lines 102-105 and 223-227: the fallback is called with the same
\* crawl_results dict and seeds its own queue with base_url.
BsStart ==
    /\ pc = "bs_start"
    /\ urls_to_crawl' = <<base_url>>
    /\ engine' = "beautifulsoup"
    /\ pc' = "bs_loop"
    /\ UNCHANGED <<config, other_specs, slept, notifications,
                   base_url, crawled_urls, failed_urls, robots_cache, robots_reads,
                   crawl_results, current_url, primary_failure, exc, fetches,
                   returned, job, db_pages>>

\* Lines 229-237, and line 296 with line 108 when the loop ends.
BsLoop ==
    /\ pc = "bs_loop"
    /\ LoopHead("bs_fetch", "bs_loop", "cw_finish")
    /\ UNCHANGED <<config, other_specs, slept, notifications,
                   base_url, crawled_urls, failed_urls, crawl_results,
                   engine, primary_failure, exc, fetches, returned, job,
                   db_pages>>

\* Lines 239-262 and 286-294: session.get, raise_for_status, extraction
\* and classification.  A requests RequestException is recorded as a
\* failed page; an exception of any other class is not caught here, nor in
\* crawl_website: it reaches run_crawl_job.
BsFetch ==
    /\ pc = "bs_fetch"
    /\ slept' = FALSE
    /\ \/ /\ fetches' = Append(fetches, [url |-> current_url,
                                         engine |-> "beautifulsoup", outcome |-> "ok"])
          /\ RecordCrawled(current_url)
          /\ pc' = "bs_links"
          /\ UNCHANGED exc
       \/ /\ fetches' = Append(fetches, [url |-> current_url,
                                         engine |-> "beautifulsoup",
                                         outcome |-> "RequestException"])
          /\ RecordFailed(current_url, ErrorText("RequestException"))
          /\ pc' = "bs_loop"
          /\ UNCHANGED exc
       \/ /\ fetches' = Append(fetches, [url |-> current_url,
                                         engine |-> "beautifulsoup",
                                         outcome |-> "Exception"])
          /\ exc' = ErrorText("Exception")
          /\ pc' = "job_except"
          /\ UNCHANGED <<crawl_results, crawled_urls, failed_urls>>
    /\ UNCHANGED <<config, other_specs, notifications,
                   base_url, robots_cache, robots_reads, urls_to_crawl, current_url,
                   engine, primary_failure, returned, job, db_pages>>

BsLinks ==
    /\ pc = "bs_links"
    /\ ExtractAndEnqueue
    /\ pc' = "bs_progress"
    /\ UNCHANGED <<config, other_specs, slept, notifications,
                   base_url, crawled_urls, failed_urls, robots_cache, robots_reads,
                   current_url, engine, primary_failure, exc, fetches,
                   returned, job, db_pages>>

\* Lines 275-281: the awaited callback.  An exception it raises is no
\* RequestException: it leaves the fallback and crawl_website.
BsProgress ==
    /\ pc = "bs_progress"
    /\ notifications' = Append(notifications, Notification)
    /\ \/ /\ ProgressCallback
          /\ pc' = "bs_sleep"
          /\ UNCHANGED exc
       \/ /\ exc' = ErrorText("CallbackError")
          /\ pc' = "job_except"
          /\ UNCHANGED job
    /\ UNCHANGED <<config, other_specs, slept,
                   base_url, crawled_urls, failed_urls, robots_cache, robots_reads,
                   crawl_results, urls_to_crawl, current_url, engine,
                   primary_failure, fetches, returned, db_pages>>

\* Line 284: asyncio.sleep(delay_seconds).
BsSleep ==
    /\ pc = "bs_sleep"
    /\ slept' = TRUE
    /\ pc' = "bs_loop"
    /\ UNCHANGED <<config, other_specs, notifications,
                   base_url, crawled_urls, failed_urls, robots_cache, robots_reads,
                   crawl_results, urls_to_crawl, current_url, engine,
                   primary_failure, exc, fetches, returned, job, db_pages>>

\* --------------------------------------------------- run_crawl_job: the end

\* The CrawledPage row of lines 340-359.
CrawledRow(page_data) ==
    [url |-> page_data.url, status |-> "crawled", error_message |-> "",
     extraction_method |-> DictGet(page_data, "extraction_method", "playwright")]

\* The CrawledPage row of lines 364-372.
FailedRow(failed_page) ==
    [url |-> failed_page.url, status |-> "failed",
     error_message |-> DictGet(failed_page, "error", "Unknown error"),
     extraction_method |-> ""]

\* Lines 338-382: a row per crawled page, a row per failed page, the job
\* row completed with the counters of the result; one commit.
JobSave ==
    /\ pc = "job_save"
    /\ db_pages' =
         [i \in 1..Len(returned.crawled_pages) |->
             CrawledRow(returned.crawled_pages[i])]
         \o [i \in 1..Len(returned.failed_pages) |->
                FailedRow(returned.failed_pages[i])]
    /\ job' = [job EXCEPT !.status = "completed",
                          !.completed = TRUE,
                          !.pages_crawled = returned.pages_crawled,
                          !.pages_failed = returned.pages_failed,
                          !.total_pages_found = returned.total_pages_found]
    /\ pc' = "job_finally"
    /\ UNCHANGED <<config, other_specs, slept, notifications,
                   base_url, crawled_urls, failed_urls, robots_cache, robots_reads,
                   crawl_results, urls_to_crawl, current_url, engine,
                   primary_failure, exc, fetches, returned>>

JobExcept_NoMessage ==
    /\ pc = "job_except"
    /\ job' = [job EXCEPT !.status = "failed", !.completed = TRUE]
    /\ pc' = "job_finally"
    /\ UNCHANGED <<config, other_specs, slept, notifications,
                   base_url, crawled_urls, failed_urls, robots_cache, robots_reads,
                   crawl_results, urls_to_crawl, current_url, engine,
                   primary_failure, exc, fetches, returned, db_pages>>

\* Lines 388-397: the except clause of run_crawl_job.
JobExcept ==
    /\ pc = "job_except"
    /\ job' = [job EXCEPT !.status = "failed",
                          !.completed = TRUE,
                          !.error_message = exc]
    /\ pc' = "job_finally"
    /\ UNCHANGED <<config, other_specs, slept, notifications,
                   base_url, crawled_urls, failed_urls, robots_cache, robots_reads,
                   crawl_results, urls_to_crawl, current_url, engine,
                   primary_failure, exc, fetches, returned, db_pages>>

\* Lines 399-404: the finally clause; the task ends.
JobFinally ==
    /\ pc = "job_finally"
    /\ pc' = "done"
    /\ UNCHANGED <<config, other_specs, slept, notifications,
                   base_url, crawled_urls, failed_urls, robots_cache, robots_reads,
                   crawl_results, urls_to_crawl, current_url, engine,
                   primary_failure, exc, fetches, returned, job, db_pages>>

\* ---------------------------------------------------------- specification

Next ==
    \/ RunJobStart
    \/ CwValidate
    \/ CwLaunch
    \/ PwNewPage
    \/ PwLoop
    \/ PwFetch
    \/ PwLinks
    \/ PwProgress
    \/ PwSleep
    \/ PwClose
    \/ BsStart
    \/ BsLoop
    \/ BsFetch
    \/ BsLinks
    \/ BsProgress
    \/ BsSleep
    \/ CwFinish
    \/ JobSave
    \/ JobExcept
    \/ JobFinally

Spec == Init /\ [][Next]_vars

\* ------------------------------------------------- vocabulary of the claims

\* ------------------------------------------------- cancellation of the task

\* The places where the coroutine is suspended in an await that yields to
\* the event loop: chromium.launch, new_page, goto and the extraction,
\* eval_on_selector_all, asyncio.sleep (both engines), close.  The
\* fallback's session.get is a blocking call and progress_callback has no
\* await of its own.
CancelPoints ==
    {"cw_launch", "pw_new_page", "pw_fetch", "pw_links", "pw_sleep",
     "pw_close", "bs_sleep"}

\* The task is cancelled while suspended: asyncio.CancelledError, a
\* BaseException, is raised at the await.  No 'except Exception' clause
\* catches it (crawler_service.py 102, 201, 304; crawl.py 388); the
\* finally clause of run_crawl_job runs and the task ends.
CancelTask ==
    /\ pc \in CancelPoints
    /\ pc' = "job_finally"
    /\ UNCHANGED <<config, other_specs, slept, notifications,
                   base_url, crawled_urls, failed_urls, robots_cache,
                   robots_reads, crawl_results, urls_to_crawl, current_url,
                   engine, primary_failure, exc, fetches, returned, job,
                   db_pages>>

NextCancel == Next \/ CancelTask

\* The event loop keeps running the task while it can take a step; a
\* cancellation may or may not come.
SpecCancel == Init /\ [][NextCancel]_vars /\ WF_vars(Next)

\* ------------------------------------------- _can_fetch_url, called directly

\* The number of calls made on one CrawlerService instance.
MaxChecks == 4

\* The URLs the policy is asked about: three origins, the site's paths.
CheckUrls ==
    { Url(o[1], o[2], p, "", "") :
        o \in {<<"https", "x.com">>, <<"http", "x.com">>, <<"https", "y.com">>},
        p \in 1..NumPaths }

\* A fresh CrawlerService (lines 43-49).
InitRobots ==
    /\ Init
    /\ base_input = SitePage(1)
    /\ max_pages = 1
    /\ respect_robots

\* One call of _can_fetch_url(url) on the instance.
RobotsCheck ==
    /\ robots_call.n < MaxChecks
    /\ \E url \in CheckUrls, ok \in BOOLEAN :
          /\ CanFetchUrl(url, ok)
          /\ robots_call' = [n |-> robots_call.n + 1, url |-> url,
                             allowed |-> ok,
                             hit |-> RobotUrl(url) \in DOMAIN robots_cache]
    /\ UNCHANGED <<config, api_vars, url_vars, classify_vars, headings_vars,
                   slept, notifications, pc,
                   base_url, crawled_urls, failed_urls, crawl_results,
                   urls_to_crawl, current_url, engine, primary_failure, exc,
                   fetches, returned, job, db_pages>>

NextRobots == RobotsCheck

SpecRobots == InitRobots /\ [][NextRobots]_vars

\* ------------------------------------- start_crawl and the background tasks

\* The projects of the projects table.
NumProjects == 2

\* The number of crawl jobs ever created.
MaxJobs == 3

Projects == 1..NumProjects

\* The project_id path parameter: a project of the table, or an id (0)
\* that is not in it.
ProjectIds == 0..NumProjects

\* The rows of a project that block a new crawl (lines 99-102).
ExistingJobs(project_id) ==
    { id \in DOMAIN jobs :
        /\ jobs[id].project_id = project_id
        /\ jobs[id].status \in {"pending", "running"} }

\* The entry start_crawl puts in active_crawl_jobs (lines 127-133).
NewProgress == [status |-> "pending", pages_crawled |-> 0]

\* What HTTP clients get back: seq flips with every request handled.
Response(code, project_id, job_id) ==
    [seq |-> 1 - last_response.seq, code |-> code,
     project_id |-> project_id, job_id |-> job_id]

InitApi ==
    /\ Init
    /\ base_input = SitePage(1)
    /\ max_pages = 1
    /\ respect_robots

StartCrawl_ChecksRunningOnly(project_id) ==
    /\ Len(jobs) < MaxJobs
    /\ IF project_id \notin Projects
       THEN /\ last_response' = Response(404, project_id, 0)
            /\ UNCHANGED <<jobs, tasks, active_crawl_jobs>>
       ELSE IF \E id \in DOMAIN jobs :
                  /\ jobs[id].project_id = project_id
                  /\ jobs[id].status = "running"
       THEN /\ last_response' = Response(409, project_id, 0)
            /\ UNCHANGED <<jobs, tasks, active_crawl_jobs>>
       ELSE LET id == Len(jobs) + 1 IN
            /\ jobs' = Append(jobs, [project_id |-> project_id,
                                     status |-> "pending"])
            /\ active_crawl_jobs' = (id :> NewProgress) @@ active_crawl_jobs
            /\ tasks' = Append(tasks, "job_start")
            /\ last_response' = Response(200, project_id, id)
    /\ UNCHANGED <<config, url_vars, robots_vars, classify_vars,
                   headings_vars, slept, notifications, pc,
                   base_url, crawled_urls, failed_urls, robots_cache,
                   robots_reads, crawl_results, urls_to_crawl, current_url,
                   engine, primary_failure, exc, fetches, returned, job,
                   db_pages>>

\* start_crawl, lines 74-150; the handler has no await, so it runs as one
\* step of the event loop.
StartCrawl(project_id) ==
    /\ Len(jobs) < MaxJobs
    /\ IF project_id \notin Projects
       THEN /\ last_response' = Response(404, project_id, 0)
            /\ UNCHANGED <<jobs, tasks, active_crawl_jobs>>
       ELSE IF ExistingJobs(project_id) # {}
       THEN /\ last_response' = Response(409, project_id, 0)
            /\ UNCHANGED <<jobs, tasks, active_crawl_jobs>>
       ELSE LET id == Len(jobs) + 1 IN
            /\ jobs' = Append(jobs, [project_id |-> project_id,
                                     status |-> "pending"])
            /\ active_crawl_jobs' = (id :> NewProgress) @@ active_crawl_jobs
            /\ tasks' = Append(tasks, "job_start")
            /\ last_response' = Response(200, project_id, id)
    /\ UNCHANGED <<config, url_vars, robots_vars, classify_vars,
                   headings_vars, slept, notifications, pc,
                   base_url, crawled_urls, failed_urls, robots_cache,
                   robots_reads, crawl_results, urls_to_crawl, current_url,
                   engine, primary_failure, exc, fetches, returned, job,
                   db_pages>>

\* What a step of a background task leaves alone.
TaskFrame ==
    UNCHANGED <<config, url_vars, robots_vars, classify_vars, headings_vars,
                slept, notifications, pc,
                base_url, crawled_urls, failed_urls, robots_cache,
                robots_reads, crawl_results, urls_to_crawl, current_url,
                engine, primary_failure, exc, fetches, returned, job,
                db_pages, last_response>>

\* run_crawl_job, lines 298-329: up to the await of crawl_website.
TaskStart(id) ==
    /\ tasks[id] = "job_start"
    /\ jobs' = [jobs EXCEPT ![id].status = "running"]
    /\ tasks' = [tasks EXCEPT ![id] = "crawl"]
    /\ UNCHANGED active_crawl_jobs
    /\ TaskFrame

\* progress_callback, lines 313-321, awaited by the crawl after a page.
TaskProgress(id) ==
    /\ tasks[id] = "crawl"
    /\ active_crawl_jobs' =
          IF id \in DOMAIN active_crawl_jobs
          THEN [active_crawl_jobs EXCEPT ![id].pages_crawled = 1]
          ELSE active_crawl_jobs
    /\ UNCHANGED <<jobs, tasks>>
    /\ TaskFrame

TaskComplete_ClearsMap(id) ==
    /\ tasks[id] = "crawl"
    /\ jobs' = [jobs EXCEPT ![id].status = "completed"]
    /\ active_crawl_jobs' = <<>>
    /\ tasks' = [tasks EXCEPT ![id] = "done"]
    /\ TaskFrame

\* crawl_website returns: lines 338-382, then the finally clause 399-404.
TaskComplete(id) ==
    /\ tasks[id] = "crawl"
    /\ jobs' = [jobs EXCEPT ![id].status = "completed"]
    /\ active_crawl_jobs' =
          [k \in DOMAIN active_crawl_jobs \ {id} |-> active_crawl_jobs[k]]
    /\ tasks' = [tasks EXCEPT ![id] = "done"]
    /\ TaskFrame

\* crawl_website raises: lines 388-397, then the finally clause 399-404.
TaskFail(id) ==
    /\ tasks[id] = "crawl"
    /\ jobs' = [jobs EXCEPT ![id].status = "failed"]
    /\ active_crawl_jobs' =
          [k \in DOMAIN active_crawl_jobs \ {id} |-> active_crawl_jobs[k]]
    /\ tasks' = [tasks EXCEPT ![id] = "done"]
    /\ TaskFrame

\* The task is cancelled while crawl_website is awaited: no except clause
\* takes the CancelledError, the finally clause 399-404 runs.
TaskCancel(id) ==
    /\ tasks[id] = "crawl"
    /\ active_crawl_jobs' =
          [k \in DOMAIN active_crawl_jobs \ {id} |-> active_crawl_jobs[k]]
    /\ tasks' = [tasks EXCEPT ![id] = "done"]
    /\ UNCHANGED jobs
    /\ TaskFrame

NextApi ==
    \/ \E project_id \in ProjectIds : StartCrawl(project_id)
    \/ \E id \in DOMAIN tasks : TaskStart(id)
    \/ \E id \in DOMAIN tasks : TaskProgress(id)
    \/ \E id \in DOMAIN tasks : TaskComplete(id)
    \/ \E id \in DOMAIN tasks : TaskFail(id)
    \/ \E id \in DOMAIN tasks : TaskCancel(id)

SpecApi == InitApi /\ [][NextApi]_vars

\* ------------------------------------------------- URLs as text (urllib)

\* Here a URL is the text the code handles: a sequence of tokens, each a
\* run of characters that urllib's scanning never splits ("https", ":",
\* "//", "x.com", "/", "a", ".pdf", ";", "?", "#", " ").

\* Longest list handed to _filter_and_normalize_urls.
MaxUrls == 2

\* Index of the first token of s that is in toks, from position from on;
\* 0 when there is none (str.find).
Find(s, toks, from) ==
    IF \E i \in from..Len(s) : s[i] \in toks
    THEN CHOOSE i \in from..Len(s) :
            /\ s[i] \in toks
            /\ \A k \in from..(i - 1) : s[k] \notin toks
    ELSE 0

\* Index of the last token of s that is in toks; 0 when none (str.rfind).
RFind(s, toks) ==
    IF \E i \in 1..Len(s) : s[i] \in toks
    THEN CHOOSE i \in 1..Len(s) :
            /\ s[i] \in toks
            /\ \A k \in (i + 1)..Len(s) : s[k] \notin toks
    ELSE 0

\* s[i:] of Python, for a 1-based i.
From(s, i) == SubSeq(s, i, Len(s))

RECURSIVE LStrip(_)
\* str.lstrip() of white space.
LStrip(s) == IF s # <<>> /\ Head(s) = " " THEN LStrip(Tail(s)) ELSE s

RECURSIVE RStrip(_)
\* str.rstrip() of white space.
RStrip(s) ==
    IF s # <<>> /\ s[Len(s)] = " " THEN RStrip(SubSeq(s, 1, Len(s) - 1)) ELSE s

\* str.strip(), line 353.
Strip(s) == RStrip(LStrip(s))

\* str.lower() of one token.
LowerToken(t) ==
    CASE t = "X.com" -> "x.com"
      [] t = "HTTP"  -> "http"
      [] t = ".PDF"  -> ".pdf"
      [] OTHER       -> t

\* str.lower(), lines 335 and 362.
LowerText(s) == [i \in 1..Len(s) |-> LowerToken(s[i])]

\* Tokens made of scheme characters only and starting with a letter.
SchemeTokens == {"https", "HTTP", "http", "ftp", "x.com", "X.com", "y.com",
                 "a", "p", "q", "f"}

\* The value of Op at v, with v computed once.
Bind(v, Op(_)) == CHOOSE r \in { Op(x) : x \in {v} } : TRUE

\* urlsplit, the scheme: what precedes the first ":" when it is made of
\* scheme characters, lower-cased; rest is what follows the ":".
SplitScheme(s) ==
    Bind(Find(s, {":"}, 1), LAMBDA c :
        IF c > 1 /\ \A k \in 1..(c - 1) : s[k] \in SchemeTokens
        THEN [scheme |-> LowerText(SubSeq(s, 1, c - 1)),
              rest |-> From(s, c + 1)]
        ELSE [scheme |-> <<>>, rest |-> s])

\* urlsplit, the netloc: from "//" to the first of "/", "?", "#".
SplitNetloc(r) ==
    IF r # <<>> /\ r[1] = "//"
    THEN Bind(Find(r, {"/", "?", "#"}, 2), LAMBDA e :
            IF e = 0
            THEN [netloc |-> From(r, 2), rest |-> <<>>]
            ELSE [netloc |-> SubSeq(r, 2, e - 1), rest |-> From(r, e)])
    ELSE [netloc |-> <<>>, rest |-> r]

\* str.split(tok, 1): r cut at the first tok.
SplitAt(r, tok) ==
    Bind(Find(r, {tok}, 1), LAMBDA i :
        IF i = 0
        THEN [before |-> r, after |-> <<>>]
        ELSE [before |-> SubSeq(r, 1, i - 1), after |-> From(r, i + 1)])

\* urllib.parse.urlsplit: leading white space is dropped, then the
\* scheme and the netloc are read, then the fragment and the query are
\* cut off at the first "#" and the first "?".
UrlSplit(text) ==
    Bind(SplitScheme(LStrip(text)), LAMBDA a :
    Bind(SplitNetloc(a.rest), LAMBDA b :
    Bind(SplitAt(b.rest, "#"), LAMBDA f :
    Bind(SplitAt(f.before, "?"), LAMBDA q :
        [scheme |-> a.scheme, netloc |-> b.netloc, path |-> q.before,
         query |-> q.after, fragment |-> f.after]))))

\* urllib.parse._splitparams: the path is cut at the first ";" of its
\* last segment.
SplitParams(path) ==
    Bind(RFind(path, {"/"}) + 1, LAMBDA from :
    Bind(Find(path, {";"}, from), LAMBDA i :
        IF i = 0
        THEN [path |-> path, params |-> <<>>]
        ELSE [path |-> SubSeq(path, 1, i - 1),
              params |-> From(path, i + 1)]))

\* urllib.parse.urlparse, lines 324 and 353 (every scheme of the model
\* takes params).
UrlParse(text) ==
    Bind(UrlSplit(text), LAMBDA sp :
    Bind(SplitParams(sp.path), LAMBDA pp :
        [scheme |-> sp.scheme, netloc |-> sp.netloc, path |-> pp.path,
         params |-> pp.params, query |-> sp.query,
         fragment |-> sp.fragment]))

\* urllib.parse.urlunparse, lines 361-368.
UrlUnparse(scheme, netloc, path, params, query, fragment) ==
    LET u0 == IF params # <<>> THEN path \o <<";">> \o params ELSE path
        u1 == IF netloc # <<>>
              THEN <<"//">> \o netloc
                   \o (IF u0 # <<>> /\ u0[1] # "/" THEN <<"/">> ELSE <<>>)
                   \o u0
              ELSE u0
        u2 == IF scheme # <<>> THEN scheme \o <<":">> \o u1 ELSE u1
        u3 == IF query # <<>> THEN u2 \o <<"?">> \o query ELSE u2
    IN  IF fragment # <<>> THEN u3 \o <<"#">> \o fragment ELSE u3

\* Python's None, for an Optional[str] text.
NoneText == <<"None">>

\* CrawlerService.normalize_url on text, lines 350-372.
NormalizeUrlText(url) ==
    Bind(UrlParse(Strip(url)), LAMBDA parsed :
        IF parsed.netloc = <<>>
           \/ parsed.scheme \notin {<<"http">>, <<"https">>}
        THEN NoneText
        ELSE UrlUnparse(parsed.scheme, LowerText(parsed.netloc),
                        parsed.path, parsed.params, parsed.query, <<>>))

\* parsed.path.lower().endswith((...)), lines 335-336.
EndsWithExcluded(path) ==
    path # <<>> /\ LowerToken(path[Len(path)]) \in ExcludedExt

\* One iteration of the loop of _filter_and_normalize_urls on text: the
\* texts it appends for url (none when the URL is skipped).
FilterOneText(url, base_domain) ==
    Bind(UrlParse(url), LAMBDA parsed :
        IF parsed.netloc # base_domain THEN {}
        ELSE IF parsed.scheme \notin {<<"http">>, <<"https">>} THEN {}
        ELSE IF EndsWithExcluded(parsed.path) THEN {}
        ELSE Bind(NormalizeUrlText(url), LAMBDA normalized :
                IF normalized # NoneText THEN {normalized} ELSE {}))

\* set(filtered_urls) of line 348.
FilteredTexts(urls, base) ==
    UNION { FilterOneText(urls[i], UrlParse(base).netloc) :
              i \in 1..Len(urls) }

\* The texts normalize_url is called with: every combination of the parts
\* below.
Leads == {<<>>, <<" ">>}

Schemes == {<<>>, <<"https", ":">>, <<"HTTP", ":">>, <<"ftp", ":">>}

Authorities == {<<>>, <<"//", "x.com">>, <<"//", "X.com">>,
                <<"//", "X.com", ":", "8080">>}

Paths == {<<>>, <<"/", "a">>, <<"/", "a", " ">>, <<"/", "a", ";", "p">>,
          <<"/", "a", ".pdf">>}

Queries == {<<>>, <<"?">>, <<"?", "q">>, <<"?", "q", " ">>}

Fragments == {<<>>, <<"#">>, <<"#", "f">>}

UrlTexts ==
    { l \o s \o a \o p \o q \o f \o t :
        l \in Leads, s \in Schemes, a \in Authorities, p \in Paths,
        q \in Queries, f \in Fragments, t \in Leads }

\* The texts of the links of a page, as read from the DOM (absolute) or
\* made by urljoin(base_url, href), which keeps the white space of href.
LinkTexts ==
    { <<"https", ":", "//", "x.com", "/", "a">>,
      <<"https", ":", "//", "x.com", "/", "a", "#", "f">>,
      <<"https", ":", "//", "X.com", "/", "a">>,
      <<"https", ":", "//", "y.com", "/", "a">>,
      <<"ftp", ":", "//", "x.com", "/", "a">>,
      <<"https", ":", "//", "x.com", "/", "a", ".pdf">>,
      <<"https", ":", "//", "x.com", "/", "a", ".PDF">>,
      <<"https", ":", "//", "x.com", "/", "a", ".pdf", " ">> }

\* The base_url argument: the URL of the page the links were read from.
BaseTexts ==
    { <<"https", ":", "//", "x.com">>,
      <<"https", ":", "//", "x.com", "/", "a">> }

\* The lists of at most n link texts.
UrlLists(n) == UNION { [1..k -> LinkTexts] : k \in 0..n }

InitUrl ==
    /\ Init
    /\ base_input = SitePage(1)
    /\ max_pages = 1
    /\ respect_robots

\* What a call of a URL function leaves alone.
UrlFrame ==
    UNCHANGED <<config, api_vars, robots_vars, classify_vars, headings_vars,
                slept, notifications, pc,
                base_url, crawled_urls, failed_urls, robots_cache,
                robots_reads, crawl_results, urls_to_crawl, current_url,
                engine, primary_failure, exc, fetches, returned, job,
                db_pages>>

\* crawler.normalize_url(url)
NormalizeCall ==
    /\ url_in = NoUrlCall
    /\ \E url \in UrlTexts :
          /\ url_in' = [fn |-> "normalize_url", urls |-> <<url>>,
                        base_url |-> <<>>]
          /\ url_out' = <<NormalizeUrlText(url)>>
    /\ UrlFrame

\* crawler.normalize_url(...) on the text the previous call returned.
NormalizeAgain ==
    /\ url_in.fn = "normalize_url"
    /\ url_out # <<NoneText>>
    /\ url_in' = [url_in EXCEPT !.urls = url_out]
    /\ url_out' = <<NormalizeUrlText(url_out[1])>>
    /\ UrlFrame

\* crawler._filter_and_normalize_urls(urls, base_url)
FilterCall ==
    /\ url_in = NoUrlCall
    /\ \E urls \in UrlLists(MaxUrls), base \in BaseTexts :
          /\ url_in' = [fn |-> "_filter_and_normalize_urls", urls |-> urls,
                        base_url |-> base]
          /\ url_out' \in Perms(FilteredTexts(urls, base))
    /\ UrlFrame

NextUrl == NormalizeCall \/ NormalizeAgain \/ FilterCall

SpecUrl == InitUrl /\ [][NextUrl]_vars

\* ------------------------------------------ _extract_headings, on its own

\* The number of elements of a document.
MaxTags == 2

\* The names find_all is given (line 236), in the order of their level.
HeadingTags == <<"h1", "h2", "h3", "h4", "h5", "h6">>

HeadingNames == { HeadingTags[n] : n \in DOMAIN HeadingTags }

\* int(heading.name[1]), line 242.
LevelOf(name) == CHOOSE n \in DOMAIN HeadingTags : HeadingTags[n] = name

\* The elements of the documents: a name and the text inside, as tokens
\* (" " is a run of white space).
ElementNames == {"h1", "h2", "h6", "p"}

ElementTexts == {<<>>, <<" ">>, <<"A">>, <<" ", "B", " ">>}

Elements == [name : ElementNames, text : ElementTexts]

\* The documents of at most n elements, in document order.
Documents(n) == UNION { [1..k -> Elements] : k \in 0..n }

\* soup.find_all(['h1', ..., 'h6']), line 236: document order.
FindAllHeadings(doc) == SelectSeq(doc, LAMBDA e : e.name \in HeadingNames)

\* The loop of lines 238-245 from the i-th heading tag on (i counts from
\* 1 here, so the 'i + 1' of line 244 is i).
RECURSIVE HeadingsFrom(_, _)
HeadingsFrom(heading_tags, i) ==
    IF i > Len(heading_tags) THEN <<>>
    ELSE (IF Strip(heading_tags[i].text) # <<>>
          THEN <<[level |-> LevelOf(heading_tags[i].name),
                  text |-> Strip(heading_tags[i].text),
                  position |-> i]>>
          ELSE <<>>)
         \o HeadingsFrom(heading_tags, i + 1)

\* _extract_headings, lines 233-247.
ExtractHeadingsOf(doc) == HeadingsFrom(FindAllHeadings(doc), 1)

InitHeadings ==
    /\ Init
    /\ base_input = SitePage(1)
    /\ max_pages = 1
    /\ respect_robots

\* What a call of a pure function of the services leaves alone.
PureFrame ==
    UNCHANGED <<config, api_vars, url_vars, robots_vars, slept,
                notifications, pc, base_url, crawled_urls, failed_urls,
                robots_cache, robots_reads, crawl_results, urls_to_crawl,
                current_url, engine, primary_failure, exc, fetches, returned,
                job, db_pages>>

\* extractor._extract_headings(soup)
ExtractHeadings ==
    /\ doc_out = NoHeadingsCall
    /\ \E doc \in Documents(MaxTags) :
          /\ doc_in' = doc
          /\ doc_out' = [returned |-> TRUE,
                          headings |-> ExtractHeadingsOf(doc)]
    /\ UNCHANGED classify_vars
    /\ PureFrame

NextHeadings == ExtractHeadings

SpecHeadings == InitHeadings /\ [][NextHeadings]_vars

\* --------------------------------------------- Python floats (binary64)

\* The scores of page_classifier.py are Python floats.  A float is kept
\* here as the natural number float * 2^FracBits, which is exact for every
\* binary64 value between 2^-7 and 2^7, the range of the scores; natural
\* numbers of any size are sequences of limbs in base 2^LimbBits, least
\* significant first, without leading zero limbs, so <<>> is zero.
LimbBits == 15

Base == 2 ^ LimbBits

\* The significand of a binary64 value has 53 bits.
Precision == 53

FracBits == 60

Limb(a, i) == IF i <= Len(a) THEN a[i] ELSE 0

RECURSIVE Trim(_)
Trim(a) ==
    IF a = <<>> THEN <<>>
    ELSE IF a[Len(a)] = 0 THEN Trim(SubSeq(a, 1, Len(a) - 1))
    ELSE a

\* n < Base * Base
BigNat(n) == Trim(<<n % Base, n \div Base>>)

RECURSIVE AddFrom(_, _, _, _)
AddFrom(a, b, i, carry) ==
    IF i > Len(a) /\ i > Len(b)
    THEN IF carry = 0 THEN <<>> ELSE <<carry>>
    ELSE <<(Limb(a, i) + Limb(b, i) + carry) % Base>>
         \o AddFrom(a, b, i + 1, (Limb(a, i) + Limb(b, i) + carry) \div Base)

BigAdd(a, b) == AddFrom(a, b, 1, 0)

RECURSIVE MulSmallFrom(_, _, _, _)
MulSmallFrom(a, k, i, carry) ==
    IF i > Len(a)
    THEN IF carry = 0 THEN <<>> ELSE <<carry>>
    ELSE <<(a[i] * k + carry) % Base>>
         \o MulSmallFrom(a, k, i + 1, (a[i] * k + carry) \div Base)

\* a * k for k < Base
BigMulSmall(a, k) == IF k = 0 THEN <<>> ELSE MulSmallFrom(a, k, 1, 0)

\* a * Base^n
ShiftLimbs(a, n) == IF a = <<>> THEN <<>> ELSE [i \in 1..n |-> 0] \o a

RECURSIVE MulFrom(_, _, _)
MulFrom(a, b, j) ==
    IF j > Len(b) THEN <<>>
    ELSE BigAdd(BigMulSmall(a, b[j]), ShiftLimbs(MulFrom(a, b, j + 1), 1))

BigMul(a, b) == MulFrom(a, b, 1)

RECURSIVE DivFrom(_, _, _, _)
DivFrom(a, d, i, rem) ==
    IF i = 0 THEN [q |-> <<>>, r |-> rem]
    ELSE Bind(DivFrom(a, d, i - 1, (rem * Base + a[i]) % d),
              LAMBDA rest : [q |-> Append(rest.q, (rem * Base + a[i]) \div d),
                             r |-> rest.r])

\* The quotient q and the remainder r of a by d, for 0 < d < Base.
BigDivSmall(a, d) ==
    Bind(DivFrom(a, d, Len(a), 0), LAMBDA x : [q |-> Trim(x.q), r |-> x.r])

\* a * 2^n
ShiftLeft(a, n) ==
    ShiftLimbs(BigMulSmall(a, 2 ^ (n % LimbBits)), n \div LimbBits)

\* floor(a / 2^n)
ShiftRight(a, n) ==
    IF n \div LimbBits >= Len(a) THEN <<>>
    ELSE BigDivSmall(SubSeq(a, n \div LimbBits + 1, Len(a)),
                     2 ^ (n % LimbBits)).q

\* a mod 2^n
LowBits(a, n) ==
    Trim([i \in 1..(n \div LimbBits + 1) |->
            IF i <= n \div LimbBits THEN Limb(a, i)
            ELSE Limb(a, i) % (2 ^ (n % LimbBits))])

\* The number of bits of a.
BitLen(a) ==
    IF a = <<>> THEN 0
    ELSE LimbBits * (Len(a) - 1)
         + (CHOOSE k \in 1..LimbBits :
               2 ^ (k - 1) <= a[Len(a)] /\ a[Len(a)] < 2 ^ k)

RECURSIVE CmpFrom(_, _, _)
CmpFrom(a, b, i) ==
    IF i = 0 THEN 0
    ELSE IF a[i] < b[i] THEN -1
    ELSE IF a[i] > b[i] THEN 1
    ELSE CmpFrom(a, b, i - 1)

\* -1, 0 or 1 as a is below, equal to or above b.
BigCmp(a, b) ==
    IF Len(a) < Len(b) THEN -1
    ELSE IF Len(a) > Len(b) THEN 1
    ELSE CmpFrom(a, b, Len(a))

\* p with its n lowest bits rounded away, to nearest, ties to even;
\* sticky says that the exact value lies above p.
RoundBits(p, n, sticky) ==
    Bind(<<ShiftRight(p, n), BigCmp(LowBits(p, n), ShiftLeft(<<1>>, n - 1))>>,
         LAMBDA qc :
            ShiftLeft(IF \/ qc[2] > 0
                         \/ qc[2] = 0 /\ (sticky \/ Limb(qc[1], 1) % 2 = 1)
                      THEN BigAdd(qc[1], <<1>>) ELSE qc[1], n))

\* The rounding of every float operation: Precision significant bits.
RoundSig(p, sticky) ==
    IF BitLen(p) <= Precision THEN p
    ELSE RoundBits(p, BitLen(p) - Precision, sticky)

\* float(n)
FloatOfInt(n) == ShiftLeft(BigNat(n), FracBits)

\* x + y
FAdd(x, y) == RoundSig(BigAdd(x, y), FALSE)

\* x * y
FMul(x, y) == ShiftRight(RoundSig(BigMul(x, y), FALSE), FracBits)

\* p / q for ints p >= 0 and q > 0; also the decimal literal p/q, which
\* Python reads as the float nearest to it.
FDiv(p, q) ==
    Bind(BigDivSmall(ShiftLeft(BigNat(p), 2 * FracBits), q),
         LAMBDA d : ShiftRight(RoundSig(d.q, d.r # 0), FracBits))

\* x < y
FLess(x, y) == BigCmp(x, y) < 0

\* min(x, y)
FMin(x, y) == IF FLess(y, x) THEN y ELSE x

\* ------------------------------------------------ classify_page, on its own

\* The number of text chunks of a page's content.
MaxChunks == 2

\* The number of items of the json_ld list of a page's structured data.
MaxItems == 1

\* url_patterns.keys(), lines 18-109: a dict keeps the order of insertion.
PageTypes ==
    <<"product", "service", "blog", "about", "contact", "pricing", "faq",
      "homepage", "category", "legal">>

\* A path is a text of tokens as above; these are the ones of the model's
\* paths.  In the patterns below a class of characters stands as the set
\* of the tokens it takes: r'-p\d+' takes "shoe-p12", r'\d{4}' "2024",
\* r'\d{2}' "01", r'^/index' a first segment "index" or "index.html".
PathTokens == {"/", "page", "about", "services", "faq", "blog"}

\* A regular expression: the sets its successive tokens are taken from,
\* and whether it is tied to the start ('^') and the end ('$').
Anywhere(toks) == [start |-> FALSE, toks |-> toks, end |-> FALSE]

AtStart(toks) == [start |-> TRUE, toks |-> toks, end |-> FALSE]

\* r'/name/' and, for several names, r'/name[s]?/'.
Segment(names) == Anywhere(<<{"/"}, names, {"/"}>>)

\* self.url_patterns, lines 18-109.
url_patterns ==
    ("product" :> <<
         Segment({"product", "products"}),
         Segment({"item", "items"}),
         Segment({"shop"}),
         Segment({"store"}),
         Segment({"buy"}),
         Segment({"catalog"}),
         Segment({"p"}),
         Anywhere(<<{"shoe-p12"}>>),
         Segment({"sku"}),
         Anywhere(<<{"/"}, {"products"}, {"/"}, PathTokens>>),
         Anywhere(<<{"/"}, {"items"}, {"/"}, PathTokens>>)>>)
    @@ ("service" :> <<
         Segment({"service", "services"}),
         Segment({"solution", "solutions"}),
         Segment({"offering", "offerings"}),
         Segment({"what-we-do"}),
         Segment({"our-services"}),
         Segment({"consultation"}),
         Segment({"consulting"})>>)
    @@ ("blog" :> <<
         Segment({"blog"}),
         Segment({"news"}),
         Segment({"article", "articles"}),
         Segment({"post", "posts"}),
         Segment({"insight", "insights"}),
         Segment({"update", "updates"}),
         Segment({"press"}),
         Segment({"stories"}),
         Anywhere(<<{"/"}, {"resources"}, {"/"}, {"blog"}, {"/"}>>),
         Anywhere(<<{"/"}, {"2024"}, {"/"}, {"01"}, {"/"}>>)>>)
    @@ ("about" :> <<
         Segment({"about"}),
         Segment({"company"}),
         Segment({"who-we-are"}),
         Segment({"our-story"}),
         Segment({"history"}),
         Segment({"team"}),
         Segment({"leadership"}),
         Segment({"mission"}),
         Segment({"vision"})>>)
    @@ ("contact" :> <<
         Segment({"contact"}),
         Segment({"get-in-touch"}),
         Segment({"reach-us"}),
         Segment({"support"}),
         Segment({"help"}),
         Segment({"customer-service"})>>)
    @@ ("pricing" :> <<
         Segment({"pricing"}),
         Segment({"plan", "plans"}),
         Segment({"package", "packages"}),
         Segment({"cost", "costs"}),
         Segment({"rate", "rates"}),
         Segment({"subscription"})>>)
    @@ ("faq" :> <<
         Segment({"faq"}),
         Segment({"frequently-asked-questions"}),
         Segment({"questions"}),
         Segment({"q-and-a"}),
         Segment({"help-center"})>>)
    @@ ("homepage" :> <<
         [start |-> TRUE, toks |-> <<{"/"}>>, end |-> TRUE],
         AtStart(<<{"/"}, {"index", "index.html"}>>),
         AtStart(<<{"/"}, {"home", "homepage"}>>),
         AtStart(<<{"/"}, {"welcome"}>>)>>)
    @@ ("category" :> <<
         Segment({"category", "categories"}),
         Segment({"department", "departments"}),
         Segment({"section", "sections"}),
         Segment({"type", "types"}),
         Segment({"browse"})>>)
    @@ ("legal" :> <<
         Segment({"privacy"}),
         Segment({"terms"}),
         Segment({"legal"}),
         Segment({"policy"}),
         Segment({"disclaimer"}),
         Segment({"copyright"}),
         Segment({"license"})>>)

\* self.content_keywords, lines 112-205.
content_keywords ==
    ("product" :>
        [strong |-> <<
            "add to cart", "buy now", "purchase", "price", "in stock",
            "out of stock", "sku", "product details", "specifications",
            "reviews", "rating", "customer reviews", "$", "USD", "EUR",
            "shipping", "delivery", "warranty", "return policy">>,
         medium |-> <<
            "features", "benefits", "description", "overview",
            "availability", "quantity", "size", "color", "model", "brand",
            "manufacturer", "technical specs">>])
    @@ ("service" :>
        [strong |-> <<
            "our services", "what we do", "solutions", "consulting",
            "professional services", "expertise", "consultation",
            "get started", "free consultation", "contact us today">>,
         medium |-> <<
            "experience", "years of experience", "qualified", "certified",
            "portfolio", "case studies", "results", "approach",
            "methodology", "process">>])
    @@ ("blog" :>
        [strong |-> <<
            "published on", "posted on", "by author", "read more",
            "comments", "share this", "tags:", "categories:",
            "related posts", "recent posts", "archive">>,
         medium |-> <<
            "learn more", "tips", "guide", "tutorial", "how to",
            "best practices", "insights", "analysis", "opinion",
            "industry news", "trends">>])
    @@ ("about" :>
        [strong |-> <<
            "about us", "our story", "our mission", "our vision",
            "who we are", "company history", "founded in", "our team",
            "leadership team", "meet the team">>,
         medium |-> <<
            "values", "culture", "philosophy", "background", "experience",
            "commitment", "dedication", "passion", "journey", "growth">>])
    @@ ("contact" :>
        [strong |-> <<
            "contact us", "get in touch", "reach us", "phone:", "email:",
            "address:", "office hours", "contact form", "send message",
            "call us", "visit us">>,
         medium |-> <<
            "location", "directions", "map", "office", "headquarters",
            "support", "customer service", "help desk">>])
    @@ ("pricing" :>
        [strong |-> <<
            "pricing", "plans", "packages", "subscription", "cost",
            "per month", "per year", "annual", "monthly", "free trial",
            "sign up", "choose plan">>,
         medium |-> <<
            "features included", "compare plans", "upgrade", "downgrade",
            "billing", "payment", "discount">>])
    @@ ("faq" :>
        [strong |-> <<
            "frequently asked questions", "faq", "questions and answers",
            "q&a", "common questions", "help center">>,
         medium |-> <<
            "question:", "answer:", "how do i", "what is", "why does",
            "when will", "can i", "troubleshooting">>])
    @@ ("homepage" :>
        [strong |-> <<
            "welcome to", "home page", "main page", "get started",
            "learn more about", "discover", "explore our",
            "featured products", "latest news">>,
         medium |-> <<
            "overview", "introduction", "what we offer", "our company",
            "solutions", "services">>])

\* self.structured_data_types, lines 208-215.
structured_data_types ==
    ("product" :> <<"Product", "Offer", "Review", "AggregateRating">>)
    @@ ("service" :> <<"Service", "Organization", "LocalBusiness">>)
    @@ ("blog" :> <<"Article", "BlogPosting", "NewsArticle">>)
    @@ ("about" :> <<"Organization", "Corporation", "Person">>)
    @@ ("contact" :> <<"Organization", "LocalBusiness", "ContactPoint">>)
    @@ ("faq" :> <<"FAQPage", "Question", "Answer">>)

\* The keywords that are part of another keyword: <<k, w>> says that k
\* occurs in w.
Within ==
    {<<"consultation", "free consultation">>,
     <<"contact us", "contact us today">>,
     <<"experience", "years of experience">>,
     <<"features", "features included">>,
     <<"learn more", "learn more about">>,
     <<"office", "office hours">>,
     <<"plans", "compare plans">>,
     <<"reviews", "customer reviews">>,
     <<"services", "our services">>,
     <<"services", "professional services">>}

\* str.lower() of a phrase.
LowerPhrase(w) ==
    CASE w = "USD"     -> "usd"
      [] w = "EUR"     -> "eur"
      [] w = "FAQ"     -> "faq"
      [] w = "Buy Now" -> "buy now"
      [] OTHER         -> w

\* A text is the set of the phrases it is made of.  f"{title} {content}"
\* .lower(), line 231.
TextContent(title, content) == { LowerPhrase(w) : w \in title \cup content }

\* keyword.lower() in content_lower, lines 310 and 315.
KeywordIn(keyword, content_lower) ==
    \E w \in content_lower :
        \/ LowerPhrase(keyword) = w
        \/ <<LowerPhrase(keyword), w>> \in Within

\* The number of keywords of the list that occur in the text.
Matches(keywords, content_lower) ==
    Cardinality({ i \in DOMAIN keywords : KeywordIn(keywords[i], content_lower) })

\* strong_weight and medium_weight, lines 319-320.
strong_weight == FDiv(7, 10)

medium_weight == FDiv(3, 10)

\* The weights of lines 246-248.
url_weight == FDiv(4, 10)

content_weight == FDiv(5, 10)

structured_weight == FDiv(1, 10)

\* re.search(pattern, path), line 289.
ReSearch(pattern, path) ==
    \E i \in 1..Len(path) :
        /\ i + Len(pattern.toks) - 1 <= Len(path)
        /\ \A j \in DOMAIN pattern.toks : path[i + j - 1] \in pattern.toks[j]
        /\ pattern.start => i = 1
        /\ pattern.end => i + Len(pattern.toks) - 1 = Len(path)

\* _score_url_patterns, lines 277-295.
ScoreUrlPatterns(url, page_type) ==
    IF page_type \notin DOMAIN url_patterns THEN FloatOfInt(0)
    ELSE Bind(LowerText(UrlParse(url).path), LAMBDA path :
            IF \E k \in DOMAIN url_patterns[page_type] :
                  ReSearch(url_patterns[page_type][k], path)
            THEN FloatOfInt(1)
            ELSE FloatOfInt(0))

\* _score_content_keywords, lines 297-334.
ScoreContentKeywords(content, page_type) ==
    IF page_type \notin DOMAIN content_keywords THEN FloatOfInt(0)
    ELSE Bind(content_keywords[page_type], LAMBDA keywords :
         Bind(<<Matches(keywords.strong, content),
                Matches(keywords.medium, content)>>, LAMBDA n :
            FMin(FAdd(FMul(IF Len(keywords.strong) > 0
                           THEN FDiv(n[1], Len(keywords.strong))
                           ELSE FloatOfInt(0), strong_weight),
                      FMul(IF Len(keywords.medium) > 0
                           THEN FDiv(n[2], Len(keywords.medium))
                           ELSE FloatOfInt(0), medium_weight)),
                 FloatOfInt(1))))

\* No structured data was extracted.
NoStructuredData == [is_none |-> TRUE, json_ld |-> <<>>, microdata |-> <<>>]

\* item_type.split('/')[-1], line 359.
TypeName(item_type) ==
    Bind(From(item_type, RFind(item_type, {"/", "//"}) + 1), LAMBDA last :
        IF last = <<>> THEN "" ELSE last[1])

\* found_types, lines 343-360: the json_ld items that are dicts give
\* their '@type', a list of names or one name; the microdata items with a
\* 'type' give the last segment of it.
FoundTypes(structured_data) ==
    UNION { { structured_data.json_ld[i].at_type[k] :
                k \in DOMAIN structured_data.json_ld[i].at_type } :
            i \in { i \in DOMAIN structured_data.json_ld :
                      structured_data.json_ld[i].is_dict } }
    \cup { TypeName(structured_data.microdata[i].type) :
             i \in { i \in DOMAIN structured_data.microdata :
                       structured_data.microdata[i].type # <<>> } }

ScoreStructuredData_CountsMatches(structured_data, page_type) ==
    IF \/ structured_data.is_none
       \/ page_type \notin DOMAIN structured_data_types
    THEN FloatOfInt(0)
    ELSE Bind(FoundTypes(structured_data), LAMBDA found_types :
            FloatOfInt(
              Cardinality({ k \in DOMAIN structured_data_types[page_type] :
                              structured_data_types[page_type][k]
                                 \in found_types })))

\* _score_structured_data, lines 336-376.
ScoreStructuredData(structured_data, page_type) ==
    IF \/ structured_data.is_none
       \/ page_type \notin DOMAIN structured_data_types
    THEN FloatOfInt(0)
    ELSE Bind(FoundTypes(structured_data), LAMBDA found_types :
            FDiv(Cardinality({ k \in DOMAIN structured_data_types[page_type] :
                                 structured_data_types[page_type][k]
                                    \in found_types }),
                 Len(structured_data_types[page_type])))

\* The scores of one page type, lines 239-250.
ScoresOf(url, text_content, structured_data, page_type) ==
    Bind(<<ScoreUrlPatterns(url, page_type),
           ScoreContentKeywords(text_content, page_type),
           ScoreStructuredData(structured_data, page_type)>>, LAMBDA s :
        [url_score |-> s[1], content_score |-> s[2],
         structured_score |-> s[3],
         total_score |-> FAdd(FAdd(FMul(s[1], url_weight),
                                   FMul(s[2], content_weight)),
                              FMul(s[3], structured_weight))])

\* The scores dict of lines 236-250.
AllScores(url, title, content, structured_data) ==
    [page_type \in { PageTypes[i] : i \in DOMAIN PageTypes } |->
        ScoresOf(url, TextContent(title, content), structured_data,
                 page_type)]

\* max(scores.keys(), key=lambda k: scores[k]), line 253: the first key,
\* in the order of the dict, that no key exceeds.
BestType(scores) ==
    PageTypes[CHOOSE i \in DOMAIN PageTypes :
        /\ \A j \in DOMAIN PageTypes :
              ~FLess(scores[PageTypes[i]].total_score,
                     scores[PageTypes[j]].total_score)
        /\ \A j \in 1..(i - 1) :
              FLess(scores[PageTypes[j]].total_score,
                    scores[PageTypes[i]].total_score)]

\* The thresholds of lines 257-266.
Confidence(best_score) ==
    IF FLess(best_score, FDiv(3, 10)) THEN FDiv(3, 10)
    ELSE IF FLess(best_score, FDiv(5, 10)) THEN FDiv(6, 10)
    ELSE IF FLess(best_score, FDiv(7, 10)) THEN FDiv(8, 10)
    ELSE FDiv(95, 100)

\* classify_page from its scores on, lines 252-271.
ClassifyScores(scores) ==
    Bind(BestType(scores), LAMBDA best_type :
        IF FLess(scores[best_type].total_score, FDiv(1, 10))
        THEN [page_type |-> "unknown", confidence |-> FloatOfInt(0)]
        ELSE [page_type |-> best_type,
              confidence |-> Confidence(scores[best_type].total_score)])

\* The URLs pages are classified with.
ClassifyUrls ==
    { <<"https", ":", "//", "x.com">> \o path :
        path \in {<<>>, <<"/">>, <<"/", "page">>,
                  <<"/", "about", "/", "services", "/">>,
                  <<"/", "faq", "/">>, <<"/", "blog", "/">>} }

\* The titles.
Titles == {{}, {"FAQ"}}

\* The chunks of text a content is made of.
Chunks ==
    {{"our services", "what we do"},
     {"qualified", "certified"},
     {"frequently asked questions", "FAQ", "questions and answers", "q&a",
      "common questions", "help center"},
     {"Buy Now", "USD"}}

\* The contents of at most n chunks.
Contents(n) ==
    { UNION chosen : chosen \in { c \in SUBSET Chunks : Cardinality(c) <= n } }

\* The items of a json_ld list: a dict whose '@type' is a list, a dict
\* whose '@type' is one name, and a string.
JsonItems ==
    {[is_dict |-> TRUE, at_type |-> <<"Article", "BlogPosting", "NewsArticle">>],
     [is_dict |-> TRUE, at_type |-> <<"FAQPage">>],
     [is_dict |-> FALSE, at_type |-> <<>>]}

MicrodataLists ==
    {<<>>, <<[type |-> <<"https", ":", "//", "schema.org", "/", "Question">>]>>}

\* The structured_data arguments with at most n json_ld items.
StructuredData(n) ==
    {NoStructuredData}
    \cup [is_none : {FALSE},
          json_ld : UNION { [1..k -> JsonItems] : k \in 0..n },
          microdata : MicrodataLists]

InitClassify ==
    /\ Init
    /\ base_input = SitePage(1)
    /\ max_pages = 1
    /\ respect_robots

\* classifier.classify_page(url, title, content, structured_data)
ClassifyCall ==
    /\ cls_in = NoClassifyCall
    /\ \E url \in ClassifyUrls, title \in Titles,
          content \in Contents(MaxChunks),
          structured_data \in StructuredData(MaxItems) :
          /\ cls_in' = [url |-> url, title |-> title, content |-> content,
                        structured_data |-> structured_data]
          /\ cls_out' =
                Bind(AllScores(url, title, content, structured_data),
                     LAMBDA scores :
                        <<[scores |-> scores,
                           result |-> ClassifyScores(scores)]>>)
    /\ UNCHANGED headings_vars
    /\ PureFrame

\* classifier.classify_page(...) once more with the same arguments.
ClassifyAgain ==
    /\ Len(cls_out) = 1
    /\ cls_out' =
          Bind(AllScores(cls_in.url, cls_in.title, cls_in.content,
                         cls_in.structured_data),
               LAMBDA scores :
                  Append(cls_out, [scores |-> scores,
                                   result |-> ClassifyScores(scores)]))
    /\ UNCHANGED <<cls_in, headings_vars>>
    /\ PureFrame

NextClassify == ClassifyCall \/ ClassifyAgain

SpecClassify == InitClassify /\ [][NextClassify]_vars

\* The URLs of a list of page entries, in order.
UrlsOf(pages) == [i \in 1..Len(pages) |-> pages[i].url]

\* The step issues a page fetch with the given engine.
FetchIssued(eng) ==
    /\ Len(fetches') = Len(fetches) + 1
    /\ fetches'[Len(fetches')].engine = eng

LastOutcome == fetches'[Len(fetches')].outcome

\* The fetches of an engine that ended as given.
FetchedOk(eng) ==
    SelectSeq(fetches, LAMBDA f : f.engine = eng /\ f.outcome = "ok")

FetchedFailed(eng) ==
    SelectSeq(fetches, LAMBDA f : f.engine = eng /\ f.outcome # "ok")

\* The run is over for the crawler: crawl_website returned or raised.
CrawlOver == pc \in {"job_save", "job_except", "job_finally", "done"}

\* No engine has been started: the task is before or in the validation of
\* the base URL, or in the error path of run_crawl_job.
NoEngineStarted ==
    /\ pc \in {"job_start", "cw_validate", "job_except", "job_finally", "done"}
    /\ engine = "none"
    /\ primary_failure = "none"

\* robots.txt, as cached, disallows the normalized base URL.
RobotsDisallowBase ==
    LET n == normalize_url(base_input)
        key == RobotUrl(n)
    IN  /\ n # None
        /\ respect_robots
        /\ key \in DOMAIN robots_cache
        /\ robots_cache[key] # NoPolicy
        /\ n.path \in robots_cache[key].disallow

\* ------------------------------------------------------------------ claims

\* C1: during and after any crawl run (primary only, fallback only, or a
\* primary attempt followed by the fallback) the number of entries of
\* crawled_pages and the pages_crawled counter never exceed max_pages.
C1_MaxPagesNeverExceeded ==
    /\ crawl_results.pages_crawled <= max_pages
    /\ Len(crawl_results.crawled_pages) <= max_pages

\* The limit has stopped a loop: max_pages pages are crawled and URLs are
\* left in the queue.
C1_Witness ==
    /\ pc = "cw_finish"
    /\ crawl_results.pages_crawled = max_pages
    /\ urls_to_crawl # <<>>

\* C2: at every point of a crawl run each URL is in at most one of the
\* pending queue, the crawled set and the failed set, for every outcome of
\* the fetch, of link extraction and of the progress callback.
C2_QueueCrawledFailedDisjoint ==
    /\ crawled_urls \cap failed_urls = {}
    /\ Range(urls_to_crawl) \cap crawled_urls = {}
    /\ Range(urls_to_crawl) \cap failed_urls = {}

\* C3: in the primary engine a fetch that times out or raises adds the URL
\* to the failed set, appends exactly one failed_pages entry with the
\* error detail, adds one to pages_failed, leaves crawled_pages alone and
\* goes back to the head of the loop with the queue as it was.
C3_PrimaryPageFailureIsLocal ==
    [][(FetchIssued("playwright") /\ LastOutcome # "ok") =>
         /\ failed_urls' = failed_urls \cup {current_url}
         /\ crawl_results'.failed_pages =
              Append(crawl_results.failed_pages,
                     [url |-> current_url,
                      error |-> IF LastOutcome = "TimeoutError"
                                THEN "timeout" ELSE ErrorText(LastOutcome)])
         /\ crawl_results'.pages_failed = crawl_results.pages_failed + 1
         /\ crawl_results'.crawled_pages = crawl_results.crawled_pages
         /\ crawl_results'.pages_crawled = crawl_results.pages_crawled
         /\ crawled_urls' = crawled_urls
         /\ urls_to_crawl' = urls_to_crawl
         /\ pc' = "pw_loop"
         /\ exc' = ""]_vars

\* The primary engine crawled a page, failed on the next and went on to
\* crawl a third: both crawled pages and the one failure are recorded.
C3_Witness ==
    \E i, j \in 1..Len(fetches) :
        /\ i < j
        /\ fetches[i].engine = "playwright" /\ fetches[i].outcome # "ok"
        /\ fetches[j].engine = "playwright" /\ fetches[j].outcome = "ok"
        /\ Len(crawl_results.crawled_pages) = 2
        /\ Len(crawl_results.failed_pages) = 1

\* C4: in the fallback engine any error raised while fetching a page,
\* whatever its kind, is recorded as one failed_pages entry with the
\* error text, adds one to pages_failed, leaves pages_crawled alone, and
\* the crawl goes on instead of raising to the caller.
C4_FallbackPageFailureIsLocal ==
    [][(FetchIssued("beautifulsoup") /\ LastOutcome # "ok") =>
         /\ crawl_results'.failed_pages =
              Append(crawl_results.failed_pages,
                     [url |-> current_url, error |-> ErrorText(LastOutcome)])
         /\ crawl_results'.pages_failed = crawl_results.pages_failed + 1
         /\ crawl_results'.pages_crawled = crawl_results.pages_crawled
         /\ pc' = "bs_loop"
         /\ exc' = ""]_vars

\* C5: with a base URL that fails normalization, or that robots.txt
\* disallows while respect_robots is set, crawl_website ends with the
\* validation or policy error before any engine is started: nothing is
\* fetched and no URL enters the crawled set, the failed set or the page
\* lists.
C5_RejectedBaseStartsNothing ==
    (normalize_url(base_input) = None \/ RobotsDisallowBase) =>
        /\ NoEngineStarted
        /\ fetches = <<>>
        /\ crawled_urls = {}
        /\ failed_urls = {}
        /\ crawl_results = NoResults
        /\ returned = NoResults
        /\ pc \notin {"job_start", "cw_validate"} =>
              exc = IF normalize_url(base_input) = None
                    THEN "Invalid URL" ELSE "Robots.txt disallows crawling"

\* A run with respect_robots ended on the policy error.
C5_Witness ==
    /\ pc = "done"
    /\ RobotsDisallowBase
    /\ job.error_message = "Robots.txt disallows crawling"

\* C6: when the primary engine fails to launch, crawl_website runs the
\* fallback from the base URL and returns a result with status completed
\* whose crawled_pages and failed_pages are the pages the fallback
\* processed.
C6_LaunchFailureCompletesByFallback ==
    (primary_failure = "launch" /\ pc = "done") =>
        /\ returned.status = "completed"
        /\ fetches # <<>>
        /\ fetches[1].url = base_url
        /\ \A i \in 1..Len(fetches) : fetches[i].engine = "beautifulsoup"
        /\ UrlsOf(returned.crawled_pages) = UrlsOf(FetchedOk("beautifulsoup"))
        /\ UrlsOf(returned.failed_pages) = UrlsOf(FetchedFailed("beautifulsoup"))

\* The engine that fetched the page of a crawled URL.
FetchedBy(url) ==
    (CHOOSE f \in Range(fetches) : f.url = url /\ f.outcome = "ok").engine

\* C7: every page row persisted for a page the fallback fetched carries
\* the extraction method beautifulsoup, and every row of a page the primary
\* engine fetched carries playwright.
C7_ExtractionMethodNamesEngine ==
    \A i \in 1..Len(db_pages) :
        db_pages[i].status = "crawled" =>
            db_pages[i].extraction_method = FetchedBy(db_pages[i].url)

\* The fallback has just been started: its queue is seeded and it has
\* neither popped nor fetched.
FallbackJustStarted ==
    /\ pc = "bs_loop"
    /\ urls_to_crawl = <<base_url>>
    /\ FetchedOk("beautifulsoup") = <<>>
    /\ FetchedFailed("beautifulsoup") = <<>>

\* C8: when the primary engine fails at engine level after it has recorded
\* crawled or failed pages, the fallback starts from a clean state (sets,
\* page lists and counters of the primary attempt discarded) and fetches
\* the base URL again.
C8_FallbackStartsClean ==
    /\ (primary_failure = "close" /\ FallbackJustStarted) =>
          /\ crawled_urls = {}
          /\ failed_urls = {}
          /\ crawl_results.crawled_pages = <<>>
          /\ crawl_results.failed_pages = <<>>
          /\ crawl_results.pages_crawled = 0
          /\ crawl_results.pages_failed = 0
    /\ (primary_failure = "close" /\ pc = "cw_finish") =>
          \E i \in 1..Len(fetches) :
              /\ fetches[i].engine = "beautifulsoup"
              /\ fetches[i].url = base_url

\* C9: whatever way a run that crawled pages ends, the caller has a result
\* with a terminal status, and every page recorded as crawled during the
\* run is in that result and is persisted as a page row.
C9_CrawledPagesNeverLost ==
    (pc = "done" /\ crawl_results.crawled_pages # <<>>) =>
        /\ job.status \in {"completed", "failed"}
        /\ returned.status \in {"completed", "failed"}
        /\ \A i \in 1..Len(crawl_results.crawled_pages) :
              /\ crawl_results.crawled_pages[i] \in Range(returned.crawled_pages)
              /\ \E k \in 1..Len(db_pages) :
                    /\ db_pages[k].url = crawl_results.crawled_pages[i].url
                    /\ db_pages[k].status = "crawled"

\* C10: when crawl_website returns, pages_crawled + pages_failed is the
\* number of pops that were not skipped (each of them issued one fetch):
\* every such pop is counted once, in exactly one of the two counters.
C10_CountersMatchPops ==
    pc = "job_save" =>
        returned.pages_crawled + returned.pages_failed = Len(fetches)

\* The step issues a page fetch, with either engine.
AnyFetchIssued == Len(fetches') = Len(fetches) + 1

\* The step calls the progress callback.
NotificationEmitted == Len(notifications') = Len(notifications) + 1

\* The place of a URL in the order of processing (0 when not fetched).
FetchIndex(url) ==
    IF \E i \in 1..Len(fetches) : fetches[i].url = url
    THEN CHOOSE i \in 1..Len(fetches) : fetches[i].url = url
    ELSE 0

\* C13: between any two successive page fetches of a run the engine
\* sleeps delay_seconds, in both engines and whatever the outcome of the
\* earlier fetch.
C13_SleepBetweenFetches ==
    [][(AnyFetchIssued /\ fetches # <<>>) => slept]_vars

\* C14: at most one progress notification per processed URL, in
\* processing order, and the notification of a URL is over before the
\* next fetch starts: a notification is always for the URL fetched last,
\* and a fetch is not issued by the step that notifies.
C14_OneNotificationPerUrlInOrder ==
    [][/\ \A i, j \in 1..Len(notifications') :
             i < j => notifications'[i].current_url # notifications'[j].current_url
       /\ NotificationEmitted =>
             /\ fetches # <<>>
             /\ fetches' = fetches
             /\ notifications'[Len(notifications')].current_url =
                    fetches[Len(fetches)].url
             /\ \A i \in 1..Len(notifications) :
                    FetchIndex(notifications[i].current_url) < Len(fetches)]_vars

\* Two notifications, with a failed fetch (no notification) between them.
C14_Witness ==
    /\ Len(notifications) = 2
    /\ Len(fetches) = 3
    /\ fetches[2].outcome # "ok"

\* The step pops a URL that is neither crawled nor failed.
PopsFreshUrl ==
    /\ pc \in {"pw_loop", "bs_loop"}
    /\ LoopCond(urls_to_crawl, crawl_results)
    /\ Head(urls_to_crawl) \notin crawled_urls \cup failed_urls

\* C15: with respect_robots false a run never consults the robots policy:
\* robots.txt is never read, the cache stays empty and no popped URL is
\* skipped for robots reasons (every fresh URL popped is fetched).
C15_RobotsOffNeverConsulted ==
    [][~respect_robots =>
         /\ robots_cache' = <<>>
         /\ robots_reads' = <<>>
         /\ PopsFreshUrl => pc' \in {"pw_fetch", "bs_fetch"}]_vars

\* A run without robots checks that crawled two pages.
C15_Witness ==
    /\ ~respect_robots
    /\ pc = "done"
    /\ Len(returned.crawled_pages) = 2

PrimaryPageFailure ==
    \/ FetchIssued("playwright") /\ LastOutcome # "ok"
    \/ pc = "pw_progress" /\ pc' # "pw_sleep"

\* C18: the fallback is started only after an engine-level failure of the
\* primary engine (launch, new_page, close); a page-level timeout or error
\* of the primary engine goes back to the head of its loop, with the queue
\* as it was: it starts no fallback and does not restart the crawl.
C18_FallbackOnlyOnEngineFailure ==
    [][/\ (pc' = "bs_start" /\ pc # "bs_start") =>
             /\ pc \in {"cw_launch", "pw_new_page", "pw_close"}
             /\ primary_failure' \in {"launch", "new_page", "close"}
       /\ engine' = "beautifulsoup" => primary_failure' # "none"
       /\ PrimaryPageFailure =>
             /\ pc' = "pw_loop"
             /\ engine' = "playwright"
             /\ urls_to_crawl' = urls_to_crawl
             /\ primary_failure' = "none"]_vars

\* A run of the primary engine alone that had a page failure and went on
\* to crawl another page.
C18_Witness ==
    /\ pc = "done"
    /\ primary_failure = "none"
    /\ job.status = "completed"
    /\ \E i, j \in 1..Len(fetches) :
          i < j /\ fetches[i].outcome # "ok" /\ fetches[j].outcome = "ok"

\* The moves of a job's stored status.
StatusMoves ==
    {<<"pending", "running">>, <<"running", "completed">>,
     <<"running", "failed">>}

C16_RobotsReadOncePerOrigin ==
    [][robots_call'.n = robots_call.n + 1 =>
         LET key == RobotUrl(robots_call'.url) IN
         /\ \A i, j \in 1..Len(robots_reads') :
               i < j => robots_reads'[i] # robots_reads'[j]
         /\ key \in DOMAIN robots_cache'
         /\ \A k \in DOMAIN robots_cache : robots_cache'[k] = robots_cache[k]
         /\ IF key \in DOMAIN robots_cache
            THEN robots_reads' = robots_reads /\ robots_cache' = robots_cache
            ELSE robots_reads' = Append(robots_reads, key)
         /\ robots_cache'[key] = NoPolicy => robots_call'.allowed]_vars

\* A check answered from the cache for an origin whose robots.txt could
\* not be read, on an instance that knows a second origin.
C16_Witness ==
    /\ robots_call.hit
    /\ robots_call.allowed
    /\ robots_cache[RobotUrl(robots_call.url)] = NoPolicy
    /\ Cardinality(DOMAIN robots_cache) >= 2

\* The step handles a start request.
StartRequested == last_response'.seq # last_response.seq

\* C12: in every interleaving of start requests and background tasks a
\* project has at most one job that is pending or running; a start
\* request for a project that has one is answered 409 and creates no job
\* row, no progress entry and no background task.
C12_OneActiveJobPerProject ==
    [][/\ \A project_id \in Projects :
             Cardinality({ id \in DOMAIN jobs' :
                             /\ jobs'[id].project_id = project_id
                             /\ jobs'[id].status \in {"pending", "running"} }) <= 1
       /\ (StartRequested /\ ExistingJobs(last_response'.project_id) # {}) =>
             /\ last_response'.code = 409
             /\ jobs' = jobs
             /\ tasks' = tasks
             /\ active_crawl_jobs' = active_crawl_jobs]_vars

\* A project with a finished job and a running one, whose latest start
\* request was refused.
C12_Witness ==
    /\ Len(jobs) = 2
    /\ jobs[1].project_id = jobs[2].project_id
    /\ jobs[1].status = "completed"
    /\ jobs[2].status = "running"
    /\ last_response.code = 409
    /\ last_response.project_id = jobs[2].project_id

\* The host of a netloc: what precedes the port, lower-cased.
HostOf(netloc) ==
    LET c == Find(netloc, {":"}, 1)
    IN  LowerText(IF c = 0 THEN netloc ELSE SubSeq(netloc, 1, c - 1))

\* C19: normalize_url is idempotent on the URLs it accepts: applied to
\* its own result it returns that result; and the result has the
\* lower-cased netloc, no fragment, and the scheme, path, params and query
\* of the URL it was given.
C19_NormalizeIdempotent ==
    [][/\ (url_in.fn = "normalize_url" /\ url_in'.urls = url_out) =>
             url_out' = url_out
       /\ (url_in = NoUrlCall /\ url_in'.fn = "normalize_url"
           /\ url_out' # <<NoneText>>) =>
             LET u == UrlParse(Strip(url_in'.urls[1]))
                 r == UrlParse(url_out'[1])
             IN  /\ r.netloc = LowerText(u.netloc)
                 /\ r.fragment = <<>>
                 /\ r.scheme = u.scheme
                 /\ r.path = u.path
                 /\ r.params = u.params
                 /\ r.query = u.query]_vars

\* C20: _filter_and_normalize_urls returns no URL of another host than
\* the base URL's, none with a scheme other than http or https, none whose
\* path ends with an excluded extension, and no URL twice.
C20_FilterKeepsSameHostPages ==
    url_in.fn = "_filter_and_normalize_urls" =>
        /\ \A i \in 1..Len(url_out) :
              LET r == UrlParse(url_out[i])
              IN  /\ HostOf(r.netloc) = HostOf(UrlParse(url_in.base_url).netloc)
                  /\ r.scheme \in {<<"http">>, <<"https">>}
                  /\ ~EndsWithExcluded(r.path)
        /\ \A i, k \in 1..Len(url_out) : i # k => url_out[i] # url_out[k]

\* The cached robots policy of the URL's origin disallows the URL.
Disallowed(cache, url) ==
    /\ RobotUrl(url) \in DOMAIN cache
    /\ url.path \in cache[RobotUrl(url)].disallow

\* The step pops a fresh URL that robots.txt disallows.
RobotsSkip ==
    /\ respect_robots
    /\ PopsFreshUrl
    /\ Disallowed(robots_cache', Head(urls_to_crawl))

\* C24: a popped URL that robots.txt disallows is skipped and nothing is
\* recorded for it: the step goes back to the head of the loop with the
\* counters, the page lists, the crawled and failed sets, the fetches and
\* the notifications unchanged; and no URL that the cached policy
\* disallows is ever fetched.
C24_RobotsSkipRecordsNothing ==
    [][/\ RobotsSkip =>
             /\ pc' = pc
             /\ crawl_results' = crawl_results
             /\ crawled_urls' = crawled_urls
             /\ failed_urls' = failed_urls
             /\ fetches' = fetches
             /\ notifications' = notifications
       /\ respect_robots =>
             \A i \in 1..Len(fetches') :
                 ~Disallowed(robots_cache', fetches'[i].url)]_vars

\* A link of the base page was popped and skipped for robots.txt.
C24_Witness ==
    /\ respect_robots
    /\ pc \in {"pw_loop", "bs_loop"}
    /\ fetches # <<>>
    /\ current_url \notin crawled_urls \cup failed_urls
    /\ Disallowed(robots_cache, current_url)

\* s is the beginning of t.
IsPrefix(s, t) == Len(s) <= Len(t) /\ SubSeq(t, 1, Len(s)) = s

\* C25: the queue is first-in first-out: a step leaves it alone, pops its
\* head (which becomes the current URL), appends at its end, or is the
\* start of an engine, which makes the queue [base_url].
C25_QueueIsFifo ==
    [][\/ urls_to_crawl' = urls_to_crawl
       \/ /\ urls_to_crawl # <<>>
          /\ urls_to_crawl' = Tail(urls_to_crawl)
          /\ current_url' = Head(urls_to_crawl)
       \/ /\ IsPrefix(urls_to_crawl, urls_to_crawl')
          /\ current_url' = current_url
       \/ /\ pc \in {"pw_new_page", "bs_start"}
          /\ urls_to_crawl' = <<base_url>>]_vars

\* The head of a queue of two was popped and fetched while the other URL
\* waits.
C25_Witness ==
    /\ Len(fetches) = 2
    /\ Len(urls_to_crawl) = 1
    /\ fetches[2].url = current_url
    /\ pc \in {"pw_links", "bs_links"}

\* No two entries of the sequence are equal.
Distinct(s) == \A i, j \in 1..Len(s) : i < j => s[i] # s[j]

\* C27: within one engine instance no URL is fetched twice and no URL
\* appears twice in crawled_pages and failed_pages taken together.
C27_EachUrlProcessedOnce ==
    /\ Distinct(UrlsOf(fetches))
    /\ Distinct(UrlsOf(crawl_results.crawled_pages)
                \o UrlsOf(crawl_results.failed_pages))

\* C28: total_pages_found never decreases during a run, pages_found is
\* non-decreasing along the progress notifications, and the result
\* returned has total_pages_found >= pages_crawled + pages_failed.
C28_PagesFoundNeverDecreases ==
    [][/\ crawl_results'.total_pages_found >= crawl_results.total_pages_found
       /\ \A i, j \in 1..Len(notifications') :
             i < j => notifications'[i].pages_found
                        <= notifications'[j].pages_found
       /\ returned'.status # "none" =>
             returned'.total_pages_found
                >= returned'.pages_crawled + returned'.pages_failed]_vars

\* C29: a crawl job whose background task has started (status running)
\* eventually has status completed or failed, whatever way the crawl
\* ends: normal return, error, or cancellation of the task.
C29_StartedJobEnds ==
    (job.status = "running") ~> (job.status \in {"completed", "failed"})

\* The entry of job k in the progress map, None when there is none.
EntryOf(map, k) == IF k \in DOMAIN map THEN map[k] ELSE None

\* C30: active_crawl_jobs holds an entry for a job exactly from the job's
\* creation until its background task has ended, on every path of the
\* task (completed, failed, cancelled); and a step of a run changes no
\* entry but the one of its own job: an entry that changes is the one of
\* the job just created or of a run that is crawling, and it is the only
\* one that changes in that step.
C30_ProgressEntryLifetime ==
    [][ /\ DOMAIN active_crawl_jobs' =
              { id \in DOMAIN tasks' : tasks'[id] # "done" }
        /\ \A k \in DOMAIN jobs' :
              EntryOf(active_crawl_jobs', k) # EntryOf(active_crawl_jobs, k)
              => /\ \/ k \notin DOMAIN jobs
                    \/ tasks[k] = "crawl"
                 /\ \A j \in DOMAIN jobs' \ {k} :
                       EntryOf(active_crawl_jobs', j)
                          = EntryOf(active_crawl_jobs, j) ]_vars

\* Two jobs whose runs overlapped: the first has ended and its entry is
\* gone, the second is crawling and its entry carries its own progress.
C30_Witness ==
    /\ Len(tasks) >= 2
    /\ tasks[1] = "done"
    /\ tasks[2] = "crawl"
    /\ DOMAIN active_crawl_jobs = {2}
    /\ active_crawl_jobs[2].pages_crawled = 1

\* C23: in the list _extract_headings returns, the entry at index k
\* (from 1) has position k, for every document, those with h1..h6
\* elements of empty text included.
C23_HeadingPositionsConsecutive ==
    doc_out.returned
    => \A k \in DOMAIN doc_out.headings : doc_out.headings[k].position = k

\* The types of the taxonomy.
TypeSet == { PageTypes[i] : i \in DOMAIN PageTypes }

\* A float of the model that is a whole number.
Whole(n) == FloatOfInt(n)

\* x <= y for floats.
FLeq(x, y) == ~FLess(y, x)

\* C21: for every input and every one of the ten types, url_score is 0
\* or 1, content_score and structured_score are at most 1, and the total
\* 0.4 * url_score + 0.5 * content_score + 0.1 * structured_score is at
\* most 1 (a score is never below 0: it is a count divided by a length,
\* weighted and summed).
C21_ScoresInUnitInterval ==
    \A c \in DOMAIN cls_out : \A t \in TypeSet :
        /\ DOMAIN cls_out[c].scores = TypeSet
        /\ cls_out[c].scores[t].url_score \in {Whole(0), Whole(1)}
        /\ FLeq(cls_out[c].scores[t].content_score, Whole(1))
        /\ FLeq(cls_out[c].scores[t].structured_score, Whole(1))
        /\ FLeq(cls_out[c].scores[t].total_score, Whole(1))

\* A page whose URL, text and structured data all speak for one type:
\* the three scores of faq are positive, its total is 0.7 or more.
C21_Witness ==
    /\ cls_out # <<>>
    /\ cls_out[1].scores["faq"].url_score = Whole(1)
    /\ FLess(Whole(0), cls_out[1].scores["faq"].content_score)
    /\ FLess(Whole(0), cls_out[1].scores["faq"].structured_score)
    /\ FLeq(FDiv(7, 10), cls_out[1].scores["faq"].total_score)

\* The counts the scores of a type are computed from, for the arguments
\* of the latest call: whether a URL pattern matches, the strong and the
\* medium keywords found and the length of their lists, the structured
\* data types found and the length of their list (1 for a missing list,
\* whose score is 0).
CountsOf(t) ==
    [u  |-> IF ScoreUrlPatterns(cls_in.url, t) = Whole(1) THEN 1 ELSE 0,
     s  |-> IF t \in DOMAIN content_keywords
            THEN Matches(content_keywords[t].strong,
                         TextContent(cls_in.title, cls_in.content))
            ELSE 0,
     ns |-> IF t \in DOMAIN content_keywords
            THEN Len(content_keywords[t].strong) ELSE 1,
     m  |-> IF t \in DOMAIN content_keywords
            THEN Matches(content_keywords[t].medium,
                         TextContent(cls_in.title, cls_in.content))
            ELSE 0,
     nm |-> IF t \in DOMAIN content_keywords
            THEN Len(content_keywords[t].medium) ELSE 1,
     k  |-> IF cls_in.structured_data.is_none
               \/ t \notin DOMAIN structured_data_types
            THEN 0
            ELSE Cardinality({ i \in DOMAIN structured_data_types[t] :
                                 structured_data_types[t][i]
                                    \in FoundTypes(cls_in.structured_data) }),
     nk |-> IF t \in DOMAIN structured_data_types
            THEN Len(structured_data_types[t]) ELSE 1]

\* The total score of a type as a fraction <<numerator, denominator>>:
\* 0.4 * u + 0.5 * (0.7 * s / ns + 0.3 * m / nm) + 0.1 * k / nk.
TotalOf(t) ==
    Bind(CountsOf(t), LAMBDA c :
        <<40 * c.u * c.ns * c.nm * c.nk + 35 * c.s * c.nm * c.nk
            + 15 * c.m * c.ns * c.nk + 10 * c.k * c.ns * c.nm,
          100 * c.ns * c.nm * c.nk>>)

\* a < b for fractions.
FracLess(a, b) ==
    BigCmp(BigMul(BigNat(a[1]), BigNat(b[2])),
           BigMul(BigNat(b[1]), BigNat(a[2]))) < 0

\* The types whose total is the maximum over the ten types.
MaxTypes ==
    Bind([t \in TypeSet |-> TotalOf(t)], LAMBDA total :
        { t \in TypeSet : \A o \in TypeSet : ~FracLess(total[t], total[o]) })

\* The confidence the buckets give for a total of 0.1 or more.
BucketOf(total) ==
    IF FracLess(total, <<3, 10>>) THEN FDiv(3, 10)
    ELSE IF FracLess(total, <<5, 10>>) THEN FDiv(6, 10)
    ELSE IF FracLess(total, <<7, 10>>) THEN FDiv(8, 10)
    ELSE FDiv(95, 100)

\* C22: classify_page returns ('unknown', 0.0) exactly when the maximum
\* total over the ten types is below 0.1; otherwise it returns a type of
\* the taxonomy that attains the maximum, with confidence 0.3 for a total
\* in [0.1, 0.3), 0.6 for [0.3, 0.5), 0.8 for [0.5, 0.7) and 0.95 from
\* 0.7 on.
C22_MaxTypeAndBucket ==
    cls_out # <<>>
    => Bind(<<MaxTypes, cls_out[1].result>>, LAMBDA mr :
          Bind(TotalOf(CHOOSE t \in mr[1] : TRUE), LAMBDA max :
             IF FracLess(max, <<1, 10>>)
             THEN mr[2] = [page_type |-> "unknown", confidence |-> Whole(0)]
             ELSE /\ mr[2].page_type \in mr[1]
                  /\ mr[2].confidence = BucketOf(max)))

\* The first type, in the order of the taxonomy, among some types.
FirstOf(types) ==
    PageTypes[CHOOSE i \in DOMAIN PageTypes :
        /\ PageTypes[i] \in types
        /\ \A j \in 1..(i - 1) : PageTypes[j] \notin types]

\* C26: when two or more types attain the same maximum total, 0.1 or
\* more, classify_page returns the one that comes first in the order
\* product, service, blog, about, contact, pricing, faq, homepage,
\* category, legal; and every call with the same input returns the same.
C26_TieGoesToFirstType ==
    /\ \A c \in DOMAIN cls_out : cls_out[c].result = cls_out[1].result
    /\ cls_out # <<>>
       => Bind(MaxTypes, LAMBDA types :
             (/\ Cardinality(types) >= 2
              /\ ~FracLess(TotalOf(CHOOSE t \in types : TRUE), <<1, 10>>))
             => cls_out[1].result.page_type = FirstOf(types))

====
